---- MODULE Spec2Model ----
(***************************************************************************)
(* A model of the real-time match tracker: the identifier resolver         *)
(* (GuidMapper), the record decoder (MatchMapper), the history store       *)
(* (BaseMatchHistoryStorage / InMemoryMatchHistoryStorage), the live-state *)
(* projector (LiveMatchState) and the endpoint poller (EndpointPoller).    *)
(*                                                                         *)
(* Strings of the program are represented by what the program's split()    *)
(* calls make of them: a feed line is the sequence of its comma-separated  *)
(* fields, a dictionary payload is the sequence of its ';'-separated       *)
(* segments, each segment the sequence of its ':'-separated parts.         *)
(* History entries leave out the wall-clock timestamp (Date.now()).        *)
(***************************************************************************)
EXTENDS Integers, Sequences, FiniteSets, Bags, TLC

VARIABLES
    mappings,      \* GuidMapper.mappings: guid -> name
    gmCalls,       \* resolver clients: the get() call each one is in
    mm,            \* MatchMapper instance fields (shared by store and projector)
    storage,       \* InMemoryMatchHistoryStorage.storage: Map in insertion order
    hs,            \* history store: the onEndpointChange call in progress
    hsLog,         \* history store: what the last step and the last deliveries did
    liveState,     \* LiveMatchState.currentState
    lm,            \* projector: the onEndpointChange call in progress
    lmLog,         \* projector: what the last notification did
    poller,        \* EndpointPoller fields
    loops,         \* EndpointPoller.poll() activations
    plLog,         \* poller: what the last step did, and the previous fetched body
    now,           \* Date.now()
    dec,           \* MatchMapper callers: the parse and render each one is in
    view           \* the object a caller got from getCurrentState()

vars ==
    <<mappings, gmCalls, mm, storage, hs, hsLog, liveState, lm, lmLog, poller, loops, plLog, now,
      dec, view>>

(***************************************************************************)
(* Bounds of the model.                                                    *)
(***************************************************************************)
MaxDeliveries == 3
MaxClients == 2
MaxStarts == 2
MaxFailures == 4
MaxListeners == 2

(***************************************************************************)
(* Tokens.                                                                 *)
(***************************************************************************)
Null == "null"
Generated == <<"(Generated)">>

\* uuid.validate: the tokens that are syntactic UUIDs
UuidTokens == {"m1", "m2", "sp", "co", "ho", "aw", "sL", "sP", "sR", "sX", "p1"}

IsUuid(s) == s \in UuidTokens

\* String.prototype.trim on the tokens used
Trim(s) == IF s = " " THEN "" ELSE s

\* Number(s): [nan, val, frac], the number val.frac
Number(s) ==
    CASE s = "1700" -> [nan |-> FALSE, val |-> 1700, frac |-> 0]
      [] s = "0"    -> [nan |-> FALSE, val |-> 0, frac |-> 0]
      [] s = ""     -> [nan |-> FALSE, val |-> 0, frac |-> 0]
      [] s = "1"    -> [nan |-> FALSE, val |-> 1, frac |-> 0]
      [] s = "2"    -> [nan |-> FALSE, val |-> 2, frac |-> 0]
      [] s = "1.5"  -> [nan |-> FALSE, val |-> 1, frac |-> 5]
      [] OTHER      -> [nan |-> TRUE, val |-> 0, frac |-> 0]

\* goalsString.split('|'), period.split('@'), scores.split(':') on the score tokens
\* used; a segment with no '@' has no scores
SplitPipe(g) ==
    CASE g = "p1@0:0" -> << <<"p1", <<"0", "0">> >> >>
      [] g = "p1@:"   -> << <<"p1", <<"", "">> >> >>
      [] g = "p1@1"   -> << <<"p1", <<"1">> >> >>
      [] g = "p1"     -> << <<"p1">> >>
      [] g = "p1@1:0" -> << <<"p1", <<"1", "0">> >> >>
      [] g = "zz@1:0" -> << <<"zz", <<"1", "0">> >> >>
      [] g = "p1@x:0" -> << <<"p1", <<"x", "0">> >> >>
      [] OTHER        -> << <<g, <<"">> >> >>

(***************************************************************************)
(* GuidMapper.                                                             *)
(***************************************************************************)
EmptyMap == [g \in {} |-> ""]

\* Map.set on a function
MapSet(m, k, v) == [x \in (DOMAIN m) \cup {k} |-> IF x = k THEN v ELSE m[x]]

\* parseEntries: [ok, err, entries]; filter(Boolean) drops the empty segments
ParseEntries(data) ==
    LET segs == SelectSeq(data, LAMBDA seg : seg # <<"">>)
        guidOf(seg) == Trim(seg[1])
        valueOf(seg) == IF Len(seg) >= 2 THEN Trim(seg[2]) ELSE ""
        empty(seg) == guidOf(seg) = "" \/ valueOf(seg) = ""
        badGuid(seg) == ~IsUuid(guidOf(seg))
        firstBad == CHOOSE i \in 1..Len(segs) :
                        /\ empty(segs[i]) \/ badGuid(segs[i])
                        /\ \A j \in 1..(i - 1) : ~(empty(segs[j]) \/ badGuid(segs[j]))
    IN IF \E i \in 1..Len(segs) : empty(segs[i]) \/ badGuid(segs[i])
       THEN [ok |-> FALSE,
             err |-> IF empty(segs[firstBad]) THEN "InvalidEntry" ELSE "InvalidId",
             entries |-> <<>>]
       ELSE IF Len(segs) = 0
       THEN [ok |-> FALSE, err |-> "NoEntries", entries |-> <<>>]
       ELSE [ok |-> TRUE, err |-> "",
             entries |-> [i \in 1..Len(segs) |-> <<guidOf(segs[i]), valueOf(segs[i])>>]]

\* the merge loop of fetchAndUpdateMappings: this.mappings.set for every entry
MergeEntries(m, entries) ==
    LET F[i \in 0..Len(entries)] ==
            IF i = 0 THEN m ELSE MapSet(F[i - 1], entries[i][1], entries[i][2])
    IN F[Len(entries)]

\* the seenGuids loop of fetchAndUpdateMappings: an id is on two entries
HasRepeated(entries) ==
    \E i, j \in 1..Len(entries) : i < j /\ entries[i][1] = entries[j][1]

\* a merge that leaves out the existing-binding check
HasExisting_Skipped(m, entries) == FALSE

\* the existing-binding check of fetchAndUpdateMappings
HasExisting(m, entries) == \E i \in 1..Len(entries) : entries[i][1] \in DOMAIN m

\* a lookup that never finds a binding
CacheHit_Never(m, guid) == FALSE

\* get, lines 49-50: the id has a binding, and its name is a non-empty string
CacheHit(m, guid) == guid \in DOMAIN m /\ m[guid] # ""

\* a merge that binds the new pairs before it rejects a payload with a bound id
FetchAndUpdate_MergeFirst(m, r) ==
    IF r.status # "ok" THEN [ok |-> FALSE, err |-> "FetchFailed", m |-> m]
    ELSE IF ~r.hasMappings \/ r.mappings = << <<"">> >>
    THEN [ok |-> FALSE, err |-> "InvalidResponse", m |-> m]
    ELSE LET p == ParseEntries(r.mappings) IN
         IF ~p.ok THEN [ok |-> FALSE, err |-> p.err, m |-> m]
         ELSE IF HasRepeated(p.entries)
         THEN [ok |-> FALSE, err |-> "DuplicateBinding", m |-> m]
         ELSE IF HasExisting(m, p.entries)
         THEN [ok |-> FALSE, err |-> "DuplicateBinding",
               m |-> MergeEntries(m, SelectSeq(p.entries, LAMBDA e : e[1] \notin DOMAIN m))]
         ELSE [ok |-> TRUE, err |-> "", m |-> MergeEntries(m, p.entries)]

\* fetchAndUpdateMappings once the upstream has answered with r: [ok, err, m]
FetchAndUpdate(m, r) ==
    IF r.status # "ok" THEN [ok |-> FALSE, err |-> "FetchFailed", m |-> m]
    ELSE IF ~r.hasMappings \/ r.mappings = << <<"">> >>
    THEN [ok |-> FALSE, err |-> "InvalidResponse", m |-> m]
    ELSE LET p == ParseEntries(r.mappings) IN
         IF ~p.ok THEN [ok |-> FALSE, err |-> p.err, m |-> m]
         ELSE IF HasRepeated(p.entries)
         THEN [ok |-> FALSE, err |-> "DuplicateBinding", m |-> m]
         ELSE IF HasExisting(m, p.entries)
         THEN [ok |-> FALSE, err |-> "DuplicateBinding", m |-> m]
         ELSE [ok |-> TRUE, err |-> "", m |-> MergeEntries(m, p.entries)]

\* a get that does not look the id up again after its fetch
GetAfterFetch_NoLookup(m, guid, r) ==
    LET f == FetchAndUpdate(m, r) IN
    IF ~f.ok THEN [ok |-> FALSE, val |-> "", err |-> f.err, m |-> f.m]
    ELSE [ok |-> FALSE, val |-> "", err |-> "NotFound", m |-> f.m]

\* GuidMapper.get after its fetch has answered with r: [ok, val, err, m]
GetAfterFetch(m, guid, r) ==
    LET f == FetchAndUpdate(m, r) IN
    IF ~f.ok THEN [ok |-> FALSE, val |-> "", err |-> f.err, m |-> f.m]
    ELSE IF guid \in DOMAIN f.m
    THEN [ok |-> TRUE, val |-> f.m[guid], err |-> "", m |-> f.m]
    ELSE [ok |-> FALSE, val |-> "", err |-> "NotFound", m |-> f.m]

(***************************************************************************)
(* The upstream dictionary endpoint: what a GET of the mapping URL may     *)
(* answer.                                                                 *)
(***************************************************************************)
FullDict ==
    << <<"sp", "FOOTBALL">>, <<"co", "UEFA Champions League">>, <<"ho", "Bayern Munich">>,
       <<"aw", "Juventus">>, <<"sL", "LIVE">>, <<"sP", "PRE">>, <<"sR", "REMOVED">>,
       <<"p1", "CURRENT">>, <<"">> >>

AltDict == << <<"sX", "POSTPONED">>, <<"sL", "PRE">> >>

ExtraDict == << <<"sX", "POSTPONED">> >>

TwiceDict == << <<"sP", "PRE">>, <<"sP", "PRE">> >>

RespError == [status |-> "error", hasMappings |-> FALSE, mappings |-> <<>>]
RespFull == [status |-> "ok", hasMappings |-> TRUE, mappings |-> FullDict]
RespAlt == [status |-> "ok", hasMappings |-> TRUE, mappings |-> AltDict]
RespExtra == [status |-> "ok", hasMappings |-> TRUE, mappings |-> ExtraDict]
RespTwice == [status |-> "ok", hasMappings |-> TRUE, mappings |-> TwiceDict]

Responses == {RespError, RespFull, RespAlt, RespExtra, RespTwice}

\* GuidMapper.get run to completion by a caller that nothing interleaves with:
\* the outcomes [ok, val, err, m], one per answer the upstream may give on a miss
GetOutcomes(m, guid) ==
    IF ~IsUuid(guid) THEN {[ok |-> FALSE, val |-> "", err |-> "InvalidId", m |-> m]}
    ELSE IF CacheHit(m, guid) THEN {[ok |-> TRUE, val |-> m[guid], err |-> "", m |-> m]}
    ELSE {GetAfterFetch(m, guid, r) : r \in Responses}

(***************************************************************************)
(* GuidMapper under concurrent callers.                                    *)
(***************************************************************************)
Clients == 1..MaxClients
RequestedGuids == {"sL", "sX", "m1", "zz"}

\* no answer yet
NoResponse == [status |-> "none", hasMappings |-> FALSE, mappings |-> <<>>]

\* a call of get: where it is, the id asked for, how it ended, the upstream
\* GETs it has issued and the answer to its GET
IdleCall == [pc |-> "idle", guid |-> Null, kind |-> "none", val |-> "",
             overlap |-> FALSE, startDom |-> {}, cleanMiss |-> FALSE, fetches |-> 0,
             resp |-> NoResponse]

InFlight == {c \in Clients : gmCalls[c].pc = "fetching"}

\* the ids a response would bind, when it is a valid dictionary
DictIds(r) ==
    IF /\ r.status = "ok" /\ r.hasMappings /\ r.mappings # << <<"">> >>
       /\ ParseEntries(r.mappings).ok /\ ~HasRepeated(ParseEntries(r.mappings).entries)
    THEN {ParseEntries(r.mappings).entries[i][1] : i \in 1..Len(ParseEntries(r.mappings).entries)}
    ELSE {}

\* the bindings a valid dictionary makes
DictMap(r) == MergeEntries(EmptyMap, ParseEntries(r.mappings).entries)

\* get(guid), lines 46-56: validation, cache hit, or the upstream GET is issued
GmGet(c, guid) ==
    /\ gmCalls[c].pc = "idle"
    /\ IF ~IsUuid(guid)
       THEN gmCalls' = [gmCalls EXCEPT ![c] =
                           [IdleCall EXCEPT !.guid = guid, !.kind = "InvalidId"]]
       ELSE IF CacheHit(mappings, guid)
       THEN gmCalls' = [gmCalls EXCEPT ![c] =
                           [IdleCall EXCEPT !.guid = guid, !.kind = "ok",
                                            !.val = mappings[guid]]]
       ELSE gmCalls' = [d \in Clients |->
                           IF d = c
                           THEN [IdleCall EXCEPT !.pc = "fetching", !.guid = guid,
                                                 !.fetches = 1,
                                                 !.overlap = (InFlight # {}),
                                                 !.startDom = DOMAIN mappings]
                           ELSE IF gmCalls[d].pc = "fetching"
                           THEN [gmCalls[d] EXCEPT !.overlap = TRUE]
                           ELSE gmCalls[d]]
    /\ UNCHANGED <<mappings, mm, storage, hs, hsLog, liveState, lm, lmLog, poller, loops, plLog, now, dec, view>>

\* the upstream answers c's GET with r: the rest of fetchAndUpdateMappings and of get
GmFetchReturn(c, r) ==
    /\ gmCalls[c].pc = "fetching"
    /\ LET call == gmCalls[c]
           o == GetAfterFetch(mappings, call.guid, r)
       IN /\ mappings' = o.m
          /\ gmCalls' = [gmCalls EXCEPT ![c] =
                 [IdleCall EXCEPT !.guid = call.guid,
                                  !.fetches = call.fetches,
                                  !.startDom = call.startDom,
                                  !.resp = r,
                                  !.kind = IF o.ok THEN "ok" ELSE o.err,
                                  !.val = o.val,
                                  !.overlap = call.overlap,
                                  !.cleanMiss =
                                      /\ call.guid \in DictIds(r)
                                      /\ DictIds(r) \cap call.startDom = {}
                                      /\ \A g \in (DOMAIN mappings) \ call.startDom :
                                             g \in DictIds(r) /\ DictMap(r)[g] = mappings[g]]]
    /\ UNCHANGED <<mm, storage, hs, hsLog, liveState, lm, lmLog, poller, loops, plLog, now, dec, view>>

NextResolver ==
    \/ \E c \in Clients, guid \in RequestedGuids : GmGet(c, guid)
    \/ \E c \in Clients, r \in Responses : GmFetchReturn(c, r)

(***************************************************************************)
(* MatchMapper (the record decoder).                                       *)
(***************************************************************************)
NoTime == <<>>

\* clearState followed by this.rawData = record
ClearedState(record) ==
    [rawData |-> record, id |-> Null, sportId |-> Null, leagueId |-> Null,
     startTime |-> NoTime, homeTeamId |-> Null, awayTeamId |-> Null,
     statusId |-> Null, goals |-> <<>>]

InitialMapperState == ClearedState(<<>>)

\* parseGoals: [ok, err, goals]; scores.split on a segment with no '@' is a
\* TypeError
ParseGoals(goalsString) ==
    LET periods == SplitPipe(goalsString)
        home(p) == IF Len(p[2]) >= 1 THEN Number(p[2][1]) ELSE [nan |-> TRUE, val |-> 0]
        away(p) == IF Len(p[2]) >= 2 THEN Number(p[2][2]) ELSE [nan |-> TRUE, val |-> 0]
        bad(p) == ~IsUuid(p[1]) \/ Len(p) < 2 \/ home(p).nan \/ away(p).nan
        firstBad == CHOOSE i \in 1..Len(periods) :
                        bad(periods[i]) /\ \A j \in 1..(i - 1) : ~bad(periods[j])
    IN IF \E i \in 1..Len(periods) : bad(periods[i])
       THEN [ok |-> FALSE,
             err |-> IF IsUuid(periods[firstBad][1]) /\ Len(periods[firstBad]) < 2
                     THEN "TypeError" ELSE "InvalidRecord",
             goals |-> <<>>]
       ELSE [ok |-> TRUE, err |-> "",
             goals |-> [i \in 1..Len(periods) |->
                          [period |-> periods[i][1],
                           homeGoals |-> home(periods[i]).val,
                           awayGoals |-> away(periods[i]).val]]]

GuidFields == {1, 2, 3, 5, 6, 7}

\* the timestamp parseRecord keeps: <<ms>>, or <<ms, tenths>> when it is not whole
Timestamp(n) == IF n.frac = 0 THEN <<n.val>> ELSE <<n.val, n.frac>>

\* parseRecord: [ok, err, mm], mm the instance fields it leaves behind
ParseRecord(record) ==
    LET fields == record
        cleared == ClearedState(record)
    IN IF Len(fields) < 7 \/ Len(fields) > 8
       THEN [ok |-> FALSE, err |-> "InvalidRecord", mm |-> cleared]
       ELSE IF \E index \in GuidFields : ~IsUuid(fields[index])
       THEN [ok |-> FALSE, err |-> "InvalidRecord", mm |-> cleared]
       ELSE IF Number(fields[4]).nan
       THEN [ok |-> FALSE, err |-> "InvalidRecord", mm |-> cleared]
       ELSE LET set == [cleared EXCEPT !.id = fields[1], !.sportId = fields[2],
                                       !.leagueId = fields[3],
                                       !.startTime = Timestamp(Number(fields[4])),
                                       !.homeTeamId = fields[5], !.awayTeamId = fields[6],
                                       !.statusId = fields[7]]
            IN IF Len(fields) = 8 /\ fields[8] # ""
               THEN IF ParseGoals(fields[8]).ok
                    THEN [ok |-> TRUE, err |-> "",
                          mm |-> [set EXCEPT !.goals = ParseGoals(fields[8]).goals]]
                    ELSE [ok |-> FALSE, err |-> ParseGoals(fields[8]).err, mm |-> set]
               ELSE [ok |-> TRUE, err |-> "", mm |-> set]

\* the guard of renderMatchObject: a falsy field
NotInitialized(d) ==
    \/ d.rawData = <<>> \/ d.rawData = <<"">>
    \/ d.id = Null \/ d.sportId = Null \/ d.leagueId = Null
    \/ d.startTime = NoTime \/ d.startTime = <<0>>
    \/ d.homeTeamId = Null \/ d.awayTeamId = Null \/ d.statusId = Null

\* the guidMapper.get calls of renderMatchObject, in their order
RenderGuids(d) ==
    <<d.sportId, d.leagueId, d.statusId, d.homeTeamId, d.awayTeamId>>
        \o [i \in 1..Len(d.goals) |-> d.goals[i].period]

\* the serialized gets: the outcomes [ok, names, err, m]
RECURSIVE ResolveAll(_, _, _)
ResolveAll(m, guids, names) ==
    IF guids = <<>> THEN {[ok |-> TRUE, names |-> names, err |-> "", m |-> m]}
    ELSE UNION {IF o.ok THEN ResolveAll(o.m, Tail(guids), Append(names, o.val))
                ELSE {[ok |-> FALSE, names |-> <<>>, err |-> o.err, m |-> o.m]}
                : o \in GetOutcomes(m, Head(guids))}

\* new Date(ms).toISOString()
ToISOString(ms) == <<"ISO-8601", ms>>

\* the scores object: a later period of the same name replaces an earlier one
RenderScores(goals, names) ==
    LET F[i \in 0..Len(goals)] ==
            IF i = 0 THEN EmptyMap
            ELSE MapSet(F[i - 1], names[5 + i],
                        [type |-> names[5 + i], home |-> goals[i].homeGoals,
                         away |-> goals[i].awayGoals])
    IN F[Len(goals)]

NoObject == [none |-> TRUE]

\* the object renderMatchObject returns, {[id]: mappedMatch}, as [key, match]
MatchObject(d, names) ==
    [key |-> d.id,
     match |-> [id |-> d.id, status |-> names[3], scores |-> RenderScores(d.goals, names),
                startTime |-> ToISOString(d.startTime[1]), sport |-> names[1],
                competitors |-> [HOME |-> [type |-> "HOME", name |-> names[4]],
                                 AWAY |-> [type |-> "AWAY", name |-> names[5]]],
                competition |-> names[2]]]

\* renderMatchObject by a caller that nothing interleaves with: the outcomes [ok, obj, err, m]
RenderOutcomes(d, m) ==
    IF NotInitialized(d)
    THEN {[ok |-> FALSE, obj |-> NoObject, err |-> "NotInitialized", m |-> m]}
    ELSE {IF r.ok THEN [ok |-> TRUE, obj |-> MatchObject(d, r.names), err |-> "", m |-> r.m]
          ELSE [ok |-> FALSE, obj |-> NoObject, err |-> r.err, m |-> r.m]
          : r \in ResolveAll(m, RenderGuids(d), <<>>)}

\* JSON.stringify of a rendered object
JsonStringify(obj) == [json |-> obj]

(***************************************************************************)
(* The feed: lines, and the bodies the odds endpoint may serve.            *)
(***************************************************************************)
LineOf(matchId, statusId, goals) ==
    <<matchId, "sp", "co", "1700", "ho", "aw", statusId, goals>>

ALive0 == LineOf("m1", "sL", "p1@0:0")
ALive1 == LineOf("m1", "sL", "p1@1:0")
APre == <<"m1", "sp", "co", "1700", "ho", "aw", "sP">>
ARemoved == LineOf("m1", "sR", "p1@1:0")
BLive == LineOf("m2", "sL", "")
BadIdLine == LineOf("zz", "sL", "")
AZero == <<"m1", "sp", "co", "0", "ho", "aw", "sL">>
BlankLine == <<"">>

\* a body: whether JSON.parse accepts it, and its odds string split on '\n'
Body(lines) == [json |-> TRUE, odds |-> lines]
Garbage == [json |-> FALSE, odds |-> <<>>]

Payloads ==
    {Body(<<ALive0, BLive>>), Body(<<ALive1, BlankLine>>), Body(<<ALive0, ALive1>>),
     Body(<<APre>>), Body(<<BLive, BadIdLine, ALive0>>), Body(<<ALive0, ARemoved>>),
     Body(<<ARemoved, BLive>>), Body(<<BlankLine>>), Body(<<BLive, AZero>>), Garbage}

(***************************************************************************)
(* InMemoryMatchHistoryStorage: the Map as the sequence of its [key, value] *)
(* pairs in insertion order.                                               *)
(***************************************************************************)
StorageKeys(st) == [i \in 1..Len(st) |-> st[i].key]

StorageHas(st, matchId) == \E i \in 1..Len(st) : st[i].key = matchId

\* getMatchHistory: this.storage.get(matchId) || []
GetMatchHistory(st, matchId) ==
    IF StorageHas(st, matchId)
    THEN st[CHOOSE i \in 1..Len(st) : st[i].key = matchId].value
    ELSE <<>>

\* an insertion that puts the entry in place of the history
InsertMatchRecord_Replace(st, matchId, entry) ==
    IF StorageHas(st, matchId)
    THEN [i \in 1..Len(st) |->
             IF st[i].key = matchId THEN [key |-> matchId, value |-> <<entry>>] ELSE st[i]]
    ELSE Append(st, [key |-> matchId, value |-> <<entry>>])

\* an insertion that always opens a new key
InsertMatchRecord_NewKey(st, matchId, entry) ==
    Append(st, [key |-> matchId, value |-> <<entry>>])

\* insertMatchRecord
InsertMatchRecord(st, matchId, entry) ==
    IF StorageHas(st, matchId)
    THEN [i \in 1..Len(st) |->
             IF st[i].key = matchId
             THEN [key |-> matchId, value |-> Append(st[i].value, entry)]
             ELSE st[i]]
    ELSE Append(st, [key |-> matchId, value |-> <<entry>>])

NoEntry == [rawData |-> <<>>, renderedData |-> NoObject, matchStatus |-> "undefined"]

\* a current entry that is the oldest one
GetCurrentMatchEntry_First(st, matchId) ==
    LET history == GetMatchHistory(st, matchId) IN
    IF Len(history) = 0 THEN [found |-> FALSE, entry |-> NoEntry]
    ELSE [found |-> TRUE, entry |-> history[1]]

\* getCurrentMatchEntry: [found, entry]
GetCurrentMatchEntry(st, matchId) ==
    LET history == GetMatchHistory(st, matchId) IN
    IF Len(history) = 0 THEN [found |-> FALSE, entry |-> NoEntry]
    ELSE [found |-> TRUE, entry |-> history[Len(history)]]

\* getAllMatchIds
GetAllMatchIds(st) == StorageKeys(st)

\* a selection that takes every match, whatever its status
GetAllMatchIdsByStatus_Any(st, status) == StorageKeys(st)

\* getAllMatchIdsByStatus
GetAllMatchIdsByStatus(st, status) ==
    SelectSeq(StorageKeys(st),
              LAMBDA k : LET h == GetMatchHistory(st, k) IN h[Len(h)].matchStatus = status)

\* a clearing that keeps the keys and empties their histories
ClearHistory_KeepKeys(st) == [i \in 1..Len(st) |-> [key |-> st[i].key, value |-> <<>>]]

\* clearHistory
ClearHistory(st) == <<>>

(***************************************************************************)
(* BaseMatchHistoryStorage.                                                *)
(***************************************************************************)
InSeq(x, s) == \E i \in 1..Len(s) : s[i] = x

\* a dedup test that always inserts
StateChanged_Always(currentEntry, record) == TRUE

\* the dedup test of processMatchUpdate
StateChanged(currentEntry, record) ==
    ~currentEntry.found \/ currentEntry.entry.rawData # record

\* processMatchUpdate: the outcomes [ok, err, storage, m, mm]
ProcessMatchUpdate(st, m, matchId, record) ==
    LET currentEntry == GetCurrentMatchEntry(st, matchId)
        parsed == ParseRecord(record)
    IN IF ~parsed.ok
       THEN {[ok |-> FALSE, err |-> parsed.err, storage |-> st, m |-> m, mm |-> parsed.mm]}
       ELSE IF StateChanged(currentEntry, record)
       THEN {IF o.ok
             THEN [ok |-> TRUE, err |-> "",
                   storage |-> InsertMatchRecord(st, matchId,
                                  [rawData |-> record,
                                   renderedData |-> JsonStringify(o.obj),
                                   matchStatus |-> o.obj.match.status]),
                   m |-> o.m, mm |-> parsed.mm]
             ELSE [ok |-> FALSE, err |-> o.err, storage |-> st, m |-> o.m, mm |-> parsed.mm]
             : o \in RenderOutcomes(parsed.mm, m)}
       ELSE {[ok |-> TRUE, err |-> "", storage |-> st, m |-> m, mm |-> parsed.mm]}

\* a generated entry that keeps the rendered status
GeneratedEntry_KeepStatus(obj) ==
    [rawData |-> Generated,
     renderedData |-> JsonStringify(obj),
     matchStatus |-> obj.match.status]

\* the entry markMissingLiveMatchesAsRemoved generates from a rendered object
GeneratedEntry(obj) ==
    [rawData |-> Generated,
     renderedData |-> JsonStringify([obj EXCEPT !.match.status = "REMOVED"]),
     matchStatus |-> "REMOVED"]

\* the loop of markMissingLiveMatchesAsRemoved over removedMatches
RECURSIVE RemoveLoop(_, _, _, _)
RemoveLoop(st, m, d, removedMatches) ==
    IF removedMatches = <<>>
    THEN {[ok |-> TRUE, err |-> "", storage |-> st, m |-> m, mm |-> d]}
    ELSE LET removedMatchId == Head(removedMatches)
             last == GetCurrentMatchEntry(st, removedMatchId).entry
             parsed == ParseRecord(last.rawData)
         IN IF ~parsed.ok
            THEN {[ok |-> FALSE, err |-> parsed.err, storage |-> st, m |-> m,
                   mm |-> parsed.mm]}
            ELSE UNION {IF o.ok
                        THEN RemoveLoop(InsertMatchRecord(st, removedMatchId,
                                                          GeneratedEntry(o.obj)),
                                        o.m, parsed.mm, Tail(removedMatches))
                        ELSE {[ok |-> FALSE, err |-> o.err, storage |-> st, m |-> o.m,
                               mm |-> parsed.mm]}
                        : o \in RenderOutcomes(parsed.mm, m)}

\* markMissingLiveMatchesAsRemoved: the outcomes [ok, err, storage, m, mm]
MarkMissingLiveMatchesAsRemoved(st, m, d, activeMatchIds) ==
    LET liveMatchesInStorage == GetAllMatchIdsByStatus(st, "LIVE")
        removedMatches == SelectSeq(liveMatchesInStorage,
                                    LAMBDA item : ~InSeq(item, activeMatchIds))
    IN RemoveLoop(st, m, d, removedMatches)

\* a test of the match id that accepts any first field
ValidMatchId_Any(matchId) == TRUE

\* onEndpointChange, line 18: isUuid(matchId)
ValidMatchId(matchId) == IsUuid(matchId)

\* data.odds.split('\n').filter(record => record.trim().length > 0)
StoreRecords(p) == SelectSeq(p.odds, LAMBDA record : ~(Len(record) = 1 /\ Trim(record[1]) = ""))

IdleStore == [pc |-> "idle", records |-> <<>>, i |-> 0, activeMatchIds |-> <<>>]

NoEvent == [op |-> "none", id |-> Null, same |-> FALSE, grew |-> FALSE]

InitialStoreLog ==
    [n |-> 0, payload |-> Garbage, before |-> <<>>, result |-> "none", err |-> "",
     twice |-> FALSE, firstOk |-> FALSE, partial |-> FALSE, ev |-> NoEvent]

\* onEndpointChange, lines 11-14: the call starts; JSON.parse may throw
StoreDeliverStep(p) ==
    /\ hs.pc = "idle"
    /\ hsLog.n < MaxDeliveries
    /\ hs' = IF p.json
             THEN [pc |-> "running", records |-> StoreRecords(p), i |-> 1,
                   activeMatchIds |-> <<>>]
             ELSE IdleStore
    /\ hsLog' = [n |-> hsLog.n + 1, payload |-> p, before |-> storage,
                 result |-> IF p.json THEN "running" ELSE "failed",
                 err |-> IF p.json THEN "" ELSE "SyntaxError",
                 twice |-> (hsLog.result \in {"ok", "failed"} /\ hsLog.payload = p),
                 firstOk |-> (hsLog.result = "ok"),
                 partial |-> (hsLog.partial
                                 \/ (hsLog.result = "failed" /\ storage # hsLog.before)),
                 ev |-> NoEvent]

StoreDeliver(p) ==
    /\ StoreDeliverStep(p)
    /\ UNCHANGED <<mappings, gmCalls, mm, storage, liveState, lm, lmLog, poller, loops, plLog, now, dec, view>>

\* onEndpointChange, lines 15-22: one turn of the loop over the records
StoreLine ==
    /\ hs.pc = "running"
    /\ hs.i <= Len(hs.records)
    /\ LET record == hs.records[hs.i]
           matchId == record[1]
           before == GetMatchHistory(storage, matchId)
           same == Len(before) > 0 /\ before[Len(before)].rawData = record
       IN IF ~ValidMatchId(matchId)
          THEN /\ hs' = IdleStore
               /\ hsLog' = [hsLog EXCEPT !.result = "failed", !.err = "InvalidMatchId",
                                         !.ev = [op |-> "line", id |-> matchId,
                                                 same |-> FALSE, grew |-> FALSE]]
               /\ UNCHANGED <<mappings, mm, storage>>
          ELSE \E o \in ProcessMatchUpdate(storage, mappings, matchId, record) :
               /\ storage' = o.storage
               /\ mappings' = o.m
               /\ mm' = o.mm
               /\ hs' = IF o.ok
                        THEN [hs EXCEPT !.i = hs.i + 1,
                                        !.activeMatchIds = Append(hs.activeMatchIds, matchId)]
                        ELSE IdleStore
               /\ hsLog' = [hsLog EXCEPT
                               !.result = IF o.ok THEN "running" ELSE "failed",
                               !.err = o.err,
                               !.ev = [op |-> "line", id |-> matchId, same |-> same,
                                       grew |-> Len(GetMatchHistory(o.storage, matchId))
                                                    # Len(before)]]
    /\ UNCHANGED <<gmCalls, liveState, lm, lmLog, poller, loops, plLog, now, dec, view>>

\* onEndpointChange, line 23: the sweep, after the last record
StoreSweep ==
    /\ hs.pc = "running"
    /\ hs.i > Len(hs.records)
    /\ \E o \in MarkMissingLiveMatchesAsRemoved(storage, mappings, mm, hs.activeMatchIds) :
        /\ storage' = o.storage
        /\ mappings' = o.m
        /\ mm' = o.mm
        /\ hs' = IdleStore
        /\ hsLog' = [hsLog EXCEPT !.result = IF o.ok THEN "ok" ELSE "failed",
                                  !.err = o.err,
                                  !.ev = [NoEvent EXCEPT !.op = "sweep"]]
    /\ UNCHANGED <<gmCalls, liveState, lm, lmLog, poller, loops, plLog, now, dec, view>>

\* clearHistory, called between two notifications, on any store
StoreClearStep ==
    /\ hs.pc = "idle"
    /\ storage' = ClearHistory(storage)
    /\ hsLog' = [InitialStoreLog EXCEPT !.n = hsLog.n, !.before = storage,
                                        !.ev = [NoEvent EXCEPT !.op = "clear"]]

StoreClear ==
    /\ StoreClearStep
    /\ UNCHANGED <<mappings, gmCalls, mm, hs, liveState, lm, lmLog, poller, loops, plLog, now, dec, view>>

NextStore ==
    \/ \E p \in Payloads : StoreDeliver(p)
    \/ StoreLine
    \/ StoreSweep
    \/ StoreClear

(***************************************************************************)
(* LiveMatchState (the projector): currentState as the sequence of its     *)
(* [key, value] properties in insertion order.                             *)
(***************************************************************************)
\* a filter that lets every status through
IncludedStateStatuses_All == {"PRE", "LIVE", "REMOVED", "POSTPONED"}

\* INCLUDED_STATE_STATUSES
IncludedStateStatuses == {"PRE", "LIVE"}

ObjectHas(obj, k) == \E i \in 1..Len(obj) : obj[i].key = k

ObjectGet(obj, k) == obj[CHOOSE i \in 1..Len(obj) : obj[i].key = k].value

\* obj[k] = v
ObjectSet(obj, k, v) ==
    IF ObjectHas(obj, k)
    THEN [i \in 1..Len(obj) |-> IF obj[i].key = k THEN [key |-> k, value |-> v] ELSE obj[i]]
    ELSE Append(obj, [key |-> k, value |-> v])

\* getCurrentState: { ...this.currentState }
GetCurrentState == liveState

\* no object has been returned to the caller yet
NoView == [held |-> FALSE, props |-> <<>>]

\* { ...this.currentState } as the caller holds it: a new object whose
\* properties refer to the match objects of currentState (shared)
ShallowCopy(currentState) ==
    [held |-> TRUE,
     props |-> [i \in 1..Len(currentState) |->
                   [key |-> currentState[i].key, value |-> currentState[i].value,
                    shared |-> TRUE]]]

\* this.currentState = newState: the match objects a caller holds are no
\* longer those of the projector
Detached(v) ==
    [v EXCEPT !.props = [i \in 1..Len(v.props) |-> [v.props[i] EXCEPT !.shared = FALSE]]]

ViewAfter(v, result) == IF result = "ok" THEN Detached(v) ELSE v

\* jsonData.odds.split('\n').filter(Boolean)
OddsRecords(p) == SelectSeq(p.odds, LAMBDA record : record # <<"">>)

\* lines 30-40 for one record: the outcomes [ok, newState, m, mm]
ProjectRecord(newState, m, record) ==
    LET parsed == ParseRecord(record) IN
    IF ~parsed.ok THEN {[ok |-> FALSE, newState |-> newState, m |-> m, mm |-> parsed.mm]}
    ELSE {IF o.ok
          THEN [ok |-> TRUE,
                newState |-> IF o.obj.match.status \in IncludedStateStatuses
                             THEN ObjectSet(newState, o.obj.key, o.obj.match)
                             ELSE newState,
                m |-> o.m, mm |-> parsed.mm]
          ELSE [ok |-> FALSE, newState |-> newState, m |-> o.m, mm |-> parsed.mm]
          : o \in RenderOutcomes(parsed.mm, m)}

\* a projector that writes every record straight into the public view
CurrentStateAfterRecord_Eager(currentState, newState, last) == newState

\* lines 26-44: newState is a local object; this.currentState is assigned once,
\* after the last record
CurrentStateAfterRecord(currentState, newState, last) ==
    IF last THEN newState ELSE currentState

IdleProjector == [pc |-> "idle", records |-> <<>>, i |-> 0, newState |-> <<>>]

InitialProjectorLog == [payload |-> Garbage, before |-> <<>>, result |-> "none"]

\* onEndpointChange, lines 20-26: the call starts; with no record it also ends
ProjDeliverStep(p) ==
    /\ lm.pc = "idle"
    /\ lmLog' = [payload |-> p, before |-> liveState,
                 result |-> IF ~p.json THEN "failed"
                            ELSE IF OddsRecords(p) = <<>> THEN "ok" ELSE "running"]
    /\ lm' = IF p.json /\ OddsRecords(p) # <<>>
             THEN [pc |-> "running", records |-> OddsRecords(p), i |-> 1, newState |-> <<>>]
             ELSE IdleProjector
    /\ liveState' = IF p.json /\ OddsRecords(p) = <<>> THEN <<>> ELSE liveState
    /\ view' = ViewAfter(view, lmLog'.result)

ProjDeliver(p) ==
    /\ ProjDeliverStep(p)
    /\ UNCHANGED <<mappings, gmCalls, mm, storage, hs, hsLog, poller, loops, plLog, now, dec>>

\* onEndpointChange, lines 29-44: one turn of the loop; after the last record
\* the new state replaces the current one
ProjLine ==
    /\ lm.pc = "running"
    /\ \E o \in ProjectRecord(lm.newState, mappings, lm.records[lm.i]) :
        /\ mappings' = o.m
        /\ mm' = o.mm
        /\ IF ~o.ok
           THEN /\ lm' = IdleProjector
                /\ lmLog' = [lmLog EXCEPT !.result = "failed"]
                /\ UNCHANGED liveState
           ELSE IF lm.i < Len(lm.records)
           THEN /\ lm' = [lm EXCEPT !.i = lm.i + 1, !.newState = o.newState]
                /\ liveState' = CurrentStateAfterRecord(liveState, o.newState, FALSE)
                /\ UNCHANGED lmLog
           ELSE /\ lm' = IdleProjector
                /\ liveState' = CurrentStateAfterRecord(liveState, o.newState, TRUE)
                /\ lmLog' = [lmLog EXCEPT !.result = "ok"]
    /\ view' = ViewAfter(view, lmLog'.result)
    /\ UNCHANGED <<gmCalls, storage, hs, hsLog, poller, loops, plLog, now, dec>>

NextProjector ==
    \/ \E p \in Payloads : ProjDeliver(p)
    \/ ProjLine

(***************************************************************************)
(* A caller of getCurrentState() and what it does with the returned        *)
(* object.                                                                 *)
(***************************************************************************)
ViewHas(v, k) == \E i \in 1..Len(v.props) : v.props[i].key = k

\* a match object of the caller's own
StrayMatch == [id |-> "zz", status |-> "LIVE"]

ViewKeys == {"m1", "m2", "zz"}

\* getCurrentState(): the caller gets a new object
ViewGet ==
    /\ view' = ShallowCopy(liveState)
    /\ UNCHANGED <<mappings, gmCalls, mm, storage, hs, hsLog, liveState, lm, lmLog, poller, loops,
                   plLog, now, dec>>

\* state[k] = v on the returned object: adds or replaces a key
ViewSetKey(k) ==
    /\ view.held
    /\ view' = [view EXCEPT !.props =
                   IF ViewHas(view, k)
                   THEN [i \in 1..Len(view.props) |->
                            IF view.props[i].key = k
                            THEN [key |-> k, value |-> StrayMatch, shared |-> FALSE]
                            ELSE view.props[i]]
                   ELSE Append(view.props, [key |-> k, value |-> StrayMatch, shared |-> FALSE])]
    /\ UNCHANGED <<mappings, gmCalls, mm, storage, hs, hsLog, liveState, lm, lmLog, poller, loops,
                   plLog, now, dec>>

\* delete state[k] on the returned object
ViewDeleteKey(k) ==
    /\ view.held
    /\ ViewHas(view, k)
    /\ view' = [view EXCEPT !.props = SelectSeq(view.props, LAMBDA q : q.key # k)]
    /\ UNCHANGED <<mappings, gmCalls, mm, storage, hs, hsLog, liveState, lm, lmLog, poller, loops,
                   plLog, now, dec>>

\* state[k].status = status on the returned object: a write to the match
\* object the property refers to, which currentState[k] refers to as well
\* as long as the property is shared
ViewSetStatus(k, status) ==
    /\ view.held
    /\ ViewHas(view, k)
    /\ LET i == CHOOSE n \in 1..Len(view.props) : view.props[n].key = k
           written == [view.props[i].value EXCEPT !.status = status]
       IN /\ view' = [view EXCEPT !.props[i].value = written]
          /\ liveState' = IF view.props[i].shared
                          THEN ObjectSet(liveState, k, written)
                          ELSE liveState
    /\ UNCHANGED <<mappings, gmCalls, mm, storage, hs, hsLog, lm, lmLog, poller, loops,
                   plLog, now, dec>>

CallerStep ==
    \/ ViewGet
    \/ \E k \in ViewKeys : ViewSetKey(k)
    \/ \E k \in ViewKeys : ViewDeleteKey(k)
    \/ \E k \in ViewKeys : ViewSetStatus(k, "REMOVED")

ViewPayloads == {Body(<<ALive0, BLive>>), Body(<<APre>>), Body(<<BlankLine>>), Garbage}

NextCaller ==
    \/ \E p \in ViewPayloads : ProjDeliver(p)
    \/ ProjLine
    \/ CallerStep

(***************************************************************************)
(* EndpointPoller.  A step runs from one suspension point (the pending     *)
(* GET, a pending listener call, a pending timer) to the next.             *)
(***************************************************************************)
InitialBackoffDelay == 1000
MAX_BACKOFF_DELAY == 10000
BACKOFF_MULTIPLIER == 2

Url == "url"
Bodies == {"b1", "b2"}
ListenerIds == {"L1", "L2"}
NoBody == "none"

\* calculateChecksum: SHA-256 of the bytes, as hex
CalculateChecksum(data) ==
    CASE data = "b1" -> "sha256-of-b1"
      [] data = "b2" -> "sha256-of-b2"
      [] data = "b3" -> "sha256-of-b3"
      [] OTHER -> "sha256-of-b4"

\* TextDecoder('utf-8').decode
Decode(data) == IF data = "b1" THEN "text-of-b1" ELSE "text-of-b2"

Min(a, b) == IF a < b THEN a ELSE b

\* a comparison that always sees a change
ContentChanged_Always(lastChecksum, newChecksum) == TRUE

\* performRequest, line 151
ContentChanged(lastChecksum, newChecksum) == lastChecksum # newChecksum

\* handleError, lines 167-170
NextBackoffDelay(delay) == Min(delay * BACKOFF_MULTIPLIER, MAX_BACKOFF_DELAY)

\* Array.prototype.indexOf, 1-based, 0 when absent
IndexOf(s, x) ==
    IF InSeq(x, s) THEN CHOOSE i \in 1..Len(s) : s[i] = x /\ \A j \in 1..(i - 1) : s[j] # x
    ELSE 0

\* Array.prototype.splice(index, 1)
Splice(s, index) == [i \in 1..(Len(s) - 1) |-> IF i < index THEN s[i] ELSE s[i + 1]]

\* an iteration from the last registered listener to the first
ListenerAt_Reversed(listeners, idx) == listeners[Len(listeners) + 1 - idx]

\* the array iterator of the for...of over changeListeners: the element it yields
ListenerAt(listeners, idx) == listeners[idx]

\* an iteration that skips every other listener
NextListenerIndex_Skip(idx) == idx + 2

\* the array iterator of the for...of over changeListeners
NextListenerIndex(idx) == idx + 1

\* the delay between two polls that the program is started with
RequestDelayMs == 100

\* one activation of poll(): where it is suspended, and what its round has done
RestingLoop(pc) ==
    [pc |-> pc, body |-> NoBody, idx |-> 0, changed |-> FALSE, invoked |-> <<>>,
     touched |-> FALSE]

NoPollerEvent ==
    [op |-> "none", ok |-> FALSE, fetched |-> FALSE, changed |-> FALSE, body |-> NoBody,
     invoked |-> <<>>, touched |-> FALSE, failsBefore |-> 0]

\* where poll() goes after a cycle: the delay, or the while test and the next GET
AfterCycle(isPolling, sleep) ==
    IF sleep /\ isPolling THEN RestingLoop("sleeping")
    ELSE IF isPolling THEN RestingLoop("fetching")
    ELSE RestingLoop("done")

\* the activation l moves on; an activation that has left its while loop is gone
Moved(l, next) ==
    IF next.pc = "done" THEN loops (-) SetToBag({l})
    ELSE (loops (-) SetToBag({l})) (+) SetToBag({next})

\* the record of a successful cycle: what it did, and how many failed cycles
\* came before it
SuccessEvent(ev) == [ev EXCEPT !.failsBefore = plLog.fails]

\* a success that leaves the backoff as it is
CycleSucceeded_KeepBackoff(l, newChecksum, ev) ==
    /\ poller' = [poller EXCEPT !.lastChecksum = newChecksum,
                                !.lastSuccessfulRequest = now,
                                !.currentState = "POLLING"]
    /\ loops' = Moved(l, AfterCycle(poller.isPolling, poller.requestDelayMs > 0))
    /\ plLog' = [plLog EXCEPT !.fails = 0, !.ev = SuccessEvent(ev),
                              !.prevBody = IF ev.invoked = <<>> THEN ev.body ELSE @,
                              !.failedBody = IF ev.invoked = <<>> THEN NoBody ELSE @]

\* poll(), lines 121-126, after performRequest has returned (line 162 included)
CycleSucceeded(l, newChecksum, ev) ==
    /\ poller' = [poller EXCEPT !.lastChecksum = newChecksum,
                                !.lastSuccessfulRequest = now,
                                !.currentBackoffDelay = InitialBackoffDelay,
                                !.currentState = "POLLING"]
    /\ loops' = Moved(l, AfterCycle(poller.isPolling, poller.requestDelayMs > 0))
    /\ plLog' = [plLog EXCEPT !.fails = 0, !.ev = SuccessEvent(ev),
                              !.prevBody = IF ev.invoked = <<>> THEN ev.body ELSE @,
                              !.failedBody = IF ev.invoked = <<>> THEN NoBody ELSE @]

\* the values currentState takes when a cycle fails: line 128, then line 166,
\* with no suspension point between the two
FailurePath == <<"ERROR", "BACKING_OFF">>

\* poll(), lines 127-130, and handleError
CycleFailed(l, ev) ==
    /\ plLog.fails < MaxFailures
    /\ poller' = [poller EXCEPT !.currentState = FailurePath[Len(FailurePath)],
                                !.currentBackoffDelay =
                                    NextBackoffDelay(poller.currentBackoffDelay)]
    /\ loops' = Moved(l, AfterCycle(poller.isPolling, TRUE))
    /\ plLog' = [plLog EXCEPT !.fails = plLog.fails + 1, !.ev = ev,
                              !.failedBody = IF ev.fetched THEN ev.body ELSE @]

\* startPolling: poll() runs up to its first GET
PollerStart ==
    /\ IF poller.isPolling
       THEN UNCHANGED <<poller, loops>> /\ plLog' = [plLog EXCEPT !.ev = NoPollerEvent]
       ELSE /\ BagCardinality(loops) < MaxStarts
            /\ poller' = [poller EXCEPT !.isPolling = TRUE, !.currentState = "POLLING",
                                        !.pollPromiseResolve = TRUE]
            /\ loops' = loops (+) SetToBag({RestingLoop("fetching")})
            /\ plLog' = [plLog EXCEPT !.fails = 0, !.ev = NoPollerEvent]
    /\ UNCHANGED <<mappings, gmCalls, mm, storage, hs, hsLog, liveState, lm, lmLog, now, dec, view>>

\* stopPolling
PollerStop ==
    /\ poller' = [poller EXCEPT !.isPolling = FALSE, !.currentState = "INITIALIZING",
                                !.pollPromiseResolve = FALSE]
    /\ plLog' = [plLog EXCEPT !.ev = NoPollerEvent]
    /\ UNCHANGED <<mappings, gmCalls, mm, storage, hs, hsLog, liveState, lm, lmLog, loops, now, dec, view>>

\* the rounds in progress see the registry change
Touched(l) == IF l.pc = "notifying" THEN [l EXCEPT !.touched = TRUE] ELSE l

Touch(ls) ==
    [x \in {Touched(l) : l \in DOMAIN ls} |->
        (IF x \in DOMAIN ls THEN ls[x] ELSE 0)
        + (IF x.pc = "notifying" /\ [x EXCEPT !.touched = FALSE] \in DOMAIN ls
           THEN ls[[x EXCEPT !.touched = FALSE]] ELSE 0)]

\* addChangeListener
AddChangeListener(listener) ==
    /\ Len(poller.changeListeners) < MaxListeners
    /\ poller' = [poller EXCEPT !.changeListeners = Append(poller.changeListeners, listener)]
    /\ loops' = Touch(loops)
    /\ plLog' = [plLog EXCEPT !.ev = NoPollerEvent]
    /\ UNCHANGED <<mappings, gmCalls, mm, storage, hs, hsLog, liveState, lm, lmLog, now, dec, view>>

\* removeChangeListener, lines 110-113: the registry it leaves
WithoutListener(listeners, listener) ==
    LET index == IndexOf(listeners, listener) IN
    IF index > 0 THEN Splice(listeners, index) ELSE listeners

\* removeChangeListener
RemoveChangeListener(listener) ==
    /\ LET after == WithoutListener(poller.changeListeners, listener) IN
       IF after # poller.changeListeners
       THEN /\ poller' = [poller EXCEPT !.changeListeners = after]
            /\ loops' = Touch(loops)
       ELSE UNCHANGED <<poller, loops>>
    /\ plLog' = [plLog EXCEPT !.ev = NoPollerEvent]
    /\ UNCHANGED <<mappings, gmCalls, mm, storage, hs, hsLog, liveState, lm, lmLog, now, dec, view>>

\* performRequest, lines 136-146: the GET fails (status, timeout, transport)
FetchFail(l) ==
    /\ l.pc = "fetching"
    /\ CycleFailed(l, [NoPollerEvent EXCEPT !.op = "cycleEnd"])
    /\ UNCHANGED <<mappings, gmCalls, mm, storage, hs, hsLog, liveState, lm, lmLog, now, dec, view>>

\* one call of listener.onEndpointChange(this.url, decodedData)
Invocation(listener, data) == [listener |-> listener, url |-> Url, data |-> Decode(data)]

\* performRequest, lines 148-162: the GET answers 2xx with the bytes `data`
FetchOk(l, data) ==
    /\ l.pc = "fetching"
    /\ LET newChecksum == CalculateChecksum(data)
           changed == data # plLog.prevBody
           listeners == poller.changeListeners
       IN IF ContentChanged(poller.lastChecksum, newChecksum) /\ listeners # <<>>
          THEN /\ poller' = [poller EXCEPT !.lastChecksum = newChecksum]
               /\ loops' = Moved(l,
                      [pc |-> "notifying", body |-> data, idx |-> 1, changed |-> changed,
                       invoked |-> <<Invocation(ListenerAt(listeners, 1), data)>>, touched |-> FALSE])
               /\ plLog' = [plLog EXCEPT !.prevBody = data, !.failedBody = NoBody,
                                         !.ev = NoPollerEvent]
          ELSE /\ CycleSucceeded(l, newChecksum,
                      [NoPollerEvent EXCEPT !.op = "cycleEnd", !.ok = TRUE, !.fetched = TRUE,
                                            !.changed = changed, !.body = data])
    /\ UNCHANGED <<mappings, gmCalls, mm, storage, hs, hsLog, liveState, lm, lmLog, now, dec, view>>

\* what a round has done when it ends
RoundEvent(l, ok) ==
    [op |-> "cycleEnd", ok |-> ok, fetched |-> TRUE, changed |-> l.changed, body |-> l.body,
     invoked |-> l.invoked, touched |-> l.touched, failsBefore |-> 0]

\* performRequest, lines 157-159: the pending listener call returns
ListenerReturn(l) ==
    /\ l.pc = "notifying"
    /\ LET idx == NextListenerIndex(l.idx)
           listeners == poller.changeListeners
       IN IF idx <= Len(listeners)
          THEN /\ loops' = Moved(l, [l EXCEPT !.idx = idx,
                                              !.invoked = Append(l.invoked,
                                                  Invocation(ListenerAt(listeners, idx), l.body))])
               /\ plLog' = [plLog EXCEPT !.ev = NoPollerEvent]
               /\ UNCHANGED poller
          ELSE CycleSucceeded(l, poller.lastChecksum, RoundEvent(l, TRUE))
    /\ UNCHANGED <<mappings, gmCalls, mm, storage, hs, hsLog, liveState, lm, lmLog, now, dec, view>>

\* performRequest, lines 157-159: the pending listener call fails
ListenerThrow(l) ==
    /\ l.pc = "notifying"
    /\ CycleFailed(l, RoundEvent(l, FALSE))
    /\ UNCHANGED <<mappings, gmCalls, mm, storage, hs, hsLog, liveState, lm, lmLog, now, dec, view>>

\* delay: the timer fires, and poll() tests isPolling again
Wake(l) ==
    /\ l.pc = "sleeping"
    /\ loops' = Moved(l, AfterCycle(poller.isPolling, FALSE))
    /\ plLog' = [plLog EXCEPT !.ev = NoPollerEvent]
    /\ UNCHANGED <<mappings, gmCalls, mm, storage, hs, hsLog, liveState, lm, lmLog, poller, now, dec, view>>

NextPoller ==
    \/ PollerStart
    \/ PollerStop
    \/ \E x \in ListenerIds : AddChangeListener(x)
    \/ \E x \in ListenerIds : RemoveChangeListener(x)
    \/ \E l \in DOMAIN loops : FetchFail(l)
    \/ \E l \in DOMAIN loops, data \in Bodies : FetchOk(l, data)
    \/ \E l \in DOMAIN loops : ListenerReturn(l)
    \/ \E l \in DOMAIN loops : ListenerThrow(l)
    \/ \E l \in DOMAIN loops : Wake(l)

(***************************************************************************)
(* The server as index.ts builds it: one poller, started once, whose       *)
(* listeners are the projector and then the history store.                 *)
(***************************************************************************)
FeedBodies == {"b1", "b2", "b3", "b4"}

\* TextDecoder('utf-8').decode of the bytes the odds endpoint served
FeedSnapshot(data) ==
    CASE data = "b1" -> Body(<<ALive0, BLive>>)
      [] data = "b2" -> Body(<<ALive0, ARemoved>>)
      [] data = "b3" -> Body(<<APre>>)
      [] OTHER -> Body(<<BLive, BadIdLine, ALive0>>)

\* performRequest, lines 148-162: the GET answers 2xx; on a new checksum the
\* projector, the first listener, is called
FeedFetchOk(l, data) ==
    /\ l.pc = "fetching"
    /\ LET newChecksum == CalculateChecksum(data)
           changed == data # plLog.prevBody
       IN IF ContentChanged(poller.lastChecksum, newChecksum)
          THEN /\ poller' = [poller EXCEPT !.lastChecksum = newChecksum]
               /\ loops' = Moved(l,
                      [pc |-> "notifying", body |-> data, idx |-> 1, changed |-> changed,
                       invoked |-> <<Invocation(ListenerAt(poller.changeListeners, 1), data)>>,
                       touched |-> FALSE])
               /\ plLog' = [plLog EXCEPT !.prevBody = data, !.failedBody = NoBody,
                                         !.ev = NoPollerEvent]
               /\ ProjDeliverStep(FeedSnapshot(data))
          ELSE /\ CycleSucceeded(l, newChecksum,
                      [NoPollerEvent EXCEPT !.op = "cycleEnd", !.ok = TRUE, !.fetched = TRUE,
                                            !.changed = changed, !.body = data])
               /\ UNCHANGED <<liveState, lm, lmLog, view>>
    /\ UNCHANGED <<mappings, gmCalls, mm, storage, hs, hsLog, now, dec>>

\* performRequest, lines 157-159: the projector's call has returned; the
\* history store, the second listener, is called
FeedStoreCalled(l) ==
    /\ l.pc = "notifying" /\ l.idx = 1
    /\ lm.pc = "idle" /\ lmLog.result = "ok"
    /\ loops' = Moved(l, [l EXCEPT !.idx = 2,
                                   !.invoked = Append(l.invoked,
                                       Invocation(ListenerAt(poller.changeListeners, 2), l.body))])
    /\ plLog' = [plLog EXCEPT !.ev = NoPollerEvent]
    /\ StoreDeliverStep(FeedSnapshot(l.body))
    /\ UNCHANGED <<mappings, gmCalls, mm, storage, liveState, lm, lmLog, poller, now, dec, view>>

\* performRequest, lines 157-159, and poll, lines 127-130: the call of a
\* listener has failed
FeedListenerThrew(l) ==
    /\ l.pc = "notifying"
    /\ \/ l.idx = 1 /\ lm.pc = "idle" /\ lmLog.result = "failed"
       \/ l.idx = 2 /\ hs.pc = "idle" /\ hsLog.result = "failed"
    /\ CycleFailed(l, RoundEvent(l, FALSE))
    /\ UNCHANGED <<mappings, gmCalls, mm, storage, hs, hsLog, liveState, lm, lmLog, now, dec, view>>

\* performRequest, line 162, and poll, lines 121-126: the store's call has
\* returned and the cycle ends
FeedRoundEnd(l) ==
    /\ l.pc = "notifying" /\ l.idx = 2
    /\ hs.pc = "idle" /\ hsLog.result = "ok"
    /\ CycleSucceeded(l, poller.lastChecksum, RoundEvent(l, TRUE))
    /\ UNCHANGED <<mappings, gmCalls, mm, storage, hs, hsLog, liveState, lm, lmLog, now, dec, view>>

\* clearHistory, called by another task: not between the return of the
\* store's call and the continuation of performRequest
FeedClear ==
    /\ \A l \in DOMAIN loops : ~(l.pc = "notifying" /\ l.idx = 2)
    /\ StoreClearStep
    /\ plLog' = [plLog EXCEPT !.ev = NoPollerEvent]
    /\ UNCHANGED <<mappings, gmCalls, mm, hs, liveState, lm, lmLog, poller, loops, now, dec, view>>

\* the server: startPolling() once, never stopPolling()
NextFeed ==
    \/ ~poller.isPolling /\ PollerStart
    \/ \E l \in DOMAIN loops : FetchFail(l)
    \/ \E l \in DOMAIN loops, data \in FeedBodies : FeedFetchOk(l, data)
    \/ ProjLine
    \/ \E l \in DOMAIN loops : FeedStoreCalled(l)
    \/ StoreLine
    \/ StoreSweep
    \/ \E l \in DOMAIN loops : FeedListenerThrew(l)
    \/ \E l \in DOMAIN loops : FeedRoundEnd(l)
    \/ \E l \in DOMAIN loops : Wake(l)
    \/ FeedClear

InitialPoller(requestDelayMs, changeListeners) ==
    [lastSuccessfulRequest |-> 0, currentBackoffDelay |-> InitialBackoffDelay,
     lastChecksum |-> "", currentState |-> "INITIALIZING", isPolling |-> FALSE,
     pollPromiseResolve |-> FALSE, changeListeners |-> changeListeners,
     requestDelayMs |-> requestDelayMs]

(***************************************************************************)
(* MatchMapper under its callers: parseRecord followed by                  *)
(* renderMatchObject, which suspends at every guidMapper.get.              *)
(***************************************************************************)
Callers == {"projector", "store"}

\* a caller of the decoder: the line it gave, the get it awaits (the k-th of
\* the render, with the id it passed), the names and the goals array the
\* render holds, and how its last call ended
IdleCaller ==
    [pc |-> "idle", line |-> <<>>, k |-> 0, guid |-> Null, names |-> <<>>, goals |-> <<>>,
     kind |-> "none", obj |-> NoObject, bound |-> FALSE]

InitialCallers == [c \in Callers |-> IdleCaller]

\* the ids a parsed line makes the render resolve
ReferencedIds(d) == {RenderGuids(d)[i] : i \in 1..Len(RenderGuids(d))}

\* the object the render returns at its end: id and startTime are read from
\* the instance then; new Date(null) is the epoch
RenderedObject(d, goals, names) ==
    MatchObject([d EXCEPT !.goals = goals,
                          !.startTime = IF @ = NoTime THEN <<0>> ELSE @], names)

\* the id field renderMatchObject passes to its k-th get, read from the instance
FieldOfGet(d, k) ==
    CASE k = 1 -> d.sportId
      [] k = 2 -> d.leagueId
      [] k = 3 -> d.statusId
      [] k = 4 -> d.homeTeamId
      [] k = 5 -> d.awayTeamId

\* parseRecord(line), then renderMatchObject up to its first await
DecStart(c, line) ==
    /\ dec[c].pc = "idle"
    /\ LET parsed == ParseRecord(line)
           call == [IdleCaller EXCEPT !.line = line]
       IN /\ mm' = parsed.mm
          /\ IF ~parsed.ok
             THEN dec' = [dec EXCEPT ![c] = [call EXCEPT !.kind = parsed.err]]
             ELSE IF NotInitialized(parsed.mm)
             THEN dec' = [dec EXCEPT ![c] =
                             [call EXCEPT !.kind = "NotInitialized",
                                          !.bound = ReferencedIds(parsed.mm)
                                                        \subseteq DOMAIN mappings]]
             ELSE dec' = [dec EXCEPT ![c] =
                             [call EXCEPT !.pc = "resolving", !.k = 1,
                                          !.guid = FieldOfGet(parsed.mm, 1),
                                          !.bound = ReferencedIds(parsed.mm)
                                                        \subseteq DOMAIN mappings]]
    /\ UNCHANGED <<mappings, gmCalls, storage, hs, hsLog, liveState, lm, lmLog, poller, loops,
                   plLog, now, view>>

\* the get that c's render awaits settles, and the render runs to its next await
DecResume(c) ==
    /\ dec[c].pc = "resolving"
    /\ \E o \in GetOutcomes(mappings, dec[c].guid) :
           LET call == dec[c]
               names == Append(call.names, o.val)
               goals == IF call.k = 5 THEN mm.goals ELSE call.goals
               ended == [call EXCEPT !.pc = "idle", !.k = 0, !.guid = Null,
                                     !.names = <<>>, !.goals = <<>>]
           IN /\ mappings' = o.m
              /\ IF ~o.ok
                 THEN dec' = [dec EXCEPT ![c] = [ended EXCEPT !.kind = o.err]]
                 ELSE IF call.k < 5
                 THEN dec' = [dec EXCEPT ![c] =
                                 [call EXCEPT !.k = call.k + 1, !.names = names,
                                              !.guid = FieldOfGet(mm, call.k + 1)]]
                 ELSE IF call.k - 5 < Len(goals)
                 THEN dec' = [dec EXCEPT ![c] =
                                 [call EXCEPT !.k = call.k + 1, !.names = names,
                                              !.goals = goals,
                                              !.guid = goals[call.k - 4].period]]
                 ELSE dec' = [dec EXCEPT ![c] =
                                 [ended EXCEPT !.kind = "ok",
                                               !.obj = RenderedObject(mm, goals, names)]]
    /\ UNCHANGED <<gmCalls, mm, storage, hs, hsLog, liveState, lm, lmLog, poller, loops,
                   plLog, now, view>>

\* the lines given to the decoder
TimeFields == {"1700", "0", "", "1.5", "abc"}
GoalFields == {"", "p1@1:0", "p1@:", "p1@1", "p1", "zz@1:0", "p1@x:0"}

DecoderLines ==
    {<<id, "sp", "co", t, "ho", "aw", st>> :
        id \in {"m1", "zz"}, t \in TimeFields, st \in {"sL", "sX"}}
    \cup {<<"m1", "sp", "co", t, "ho", "aw", "sL", g>> : t \in TimeFields, g \in GoalFields}
    \cup {<<"m1", sp, co, "1700", ho, aw, "sL", "p1@1:0">> :
            sp \in {"sp", "zz"}, co \in {"co", "zz"}, ho \in {"ho", "zz"}, aw \in {"aw", "zz"}}
    \cup {<<"m1", "sp", "co", "1700", "ho", "aw">>,
          <<"m1", "sp", "co", "1700", "ho", "aw", "zz">>,
          <<"m1", "sp", "co", "1700", "ho", "aw", "sL", "p1@1:0", "">>}

\* the lines two callers give to the decoder they share
SharedLines == {ALive1, BLive, BadIdLine}

\* one caller at a time
NextDecoder ==
    \/ \E line \in DecoderLines : DecStart("projector", line)
    \/ DecResume("projector")

\* the projector and the history store, each in its own listener call
NextSharedDecoder ==
    \/ \E c \in Callers, line \in SharedLines : DecStart(c, line)
    \/ \E c \in Callers : DecResume(c)

(***************************************************************************)
(* Initial state and specifications.                                       *)
(***************************************************************************)
Init ==
    /\ mappings = EmptyMap
    /\ gmCalls = [c \in Clients |-> IdleCall]
    /\ mm = InitialMapperState
    /\ storage = <<>>
    /\ hs = IdleStore
    /\ hsLog = InitialStoreLog
    /\ liveState = <<>>
    /\ lm = IdleProjector
    /\ lmLog = InitialProjectorLog
    /\ poller = InitialPoller(RequestDelayMs, <<"L1", "L2">>)
    /\ loops = EmptyBag
    /\ plLog = [prevBody |-> NoBody, failedBody |-> NoBody, fails |-> 0, ev |-> NoPollerEvent]
    /\ now = 1
    /\ dec = InitialCallers
    /\ view = NoView

SpecResolver == Init /\ [][NextResolver]_vars

SpecStore == Init /\ [][NextStore]_vars

SpecProjector == Init /\ [][NextProjector]_vars

SpecPoller == Init /\ [][NextPoller]_vars

SpecDecoder == Init /\ [][NextDecoder]_vars

SpecSharedDecoder == Init /\ [][NextSharedDecoder]_vars

SpecCaller == Init /\ [][NextCaller]_vars

SpecFeed == Init /\ [][NextFeed]_vars

(***************************************************************************)
(* Properties of the history store.                                        *)
(***************************************************************************)
\* the match ids on the lines of a body
OccursIn(p, matchId) == \E i \in 1..Len(p.odds) : p.odds[i][1] = matchId

SameLengths(st1, st2) ==
    /\ \A i \in 1..Len(st1) : Len(GetMatchHistory(st2, st1[i].key)) = Len(st1[i].value)
    /\ \A i \in 1..Len(st2) : Len(GetMatchHistory(st1, st2[i].key)) = Len(st2[i].value)

\* no match id is on two different lines of the body
OneLinePerId(p) ==
    \A i, j \in 1..Len(p.odds) : p.odds[i][1] = p.odds[j][1] => p.odds[i] = p.odds[j]

\* C1: a line equal to the raw line of its match's most recent entry appends
\* no entry for that match.
C1_Dedup == (hsLog.ev.op = "line" /\ hsLog.ev.same) => ~hsLog.ev.grew

C1_Witness == hsLog.ev.op = "line" /\ hsLog.ev.same /\ hsLog.result = "running"

\* C2: a match that was LIVE before a snapshot and is not in it has, once the
\* snapshot is processed successfully, exactly one more entry, with status
\* REMOVED and the raw line "(Generated)".
C2_RemovedSynthesis ==
    hsLog.result = "ok" =>
        \A i \in 1..Len(hsLog.before) :
            LET id == hsLog.before[i].key
                old == hsLog.before[i].value
                new == GetMatchHistory(storage, id)
            IN (old[Len(old)].matchStatus = "LIVE" /\ ~OccursIn(hsLog.payload, id)) =>
                   /\ Len(new) = Len(old) + 1
                   /\ SubSeq(new, 1, Len(old)) = old
                   /\ new[Len(new)].matchStatus = "REMOVED"
                   /\ new[Len(new)].rawData = Generated

C2_Witness ==
    /\ hsLog.result = "ok"
    /\ \E i \in 1..Len(hsLog.before) :
           LET old == hsLog.before[i].value
           IN old[Len(old)].matchStatus = "LIVE"
              /\ ~OccursIn(hsLog.payload, hsLog.before[i].key)

\* C9 as claimed: any snapshot delivered twice in a row (both deliveries
\* succeeding) leaves every history as long after the second delivery as
\* after the first.
C9_AnySnapshotTwice ==
    (hsLog.result = "ok" /\ hsLog.twice /\ hsLog.firstOk) => SameLengths(storage, hsLog.before)

\* C9: a snapshot with no match id on two different lines, delivered again
\* right after a delivery of it that succeeded, is processed successfully and
\* leaves every history as long as it was.
C9_SnapshotTwice ==
    (hsLog.result \in {"ok", "failed"} /\ hsLog.twice /\ hsLog.firstOk
        /\ OneLinePerId(hsLog.payload)) =>
            hsLog.result = "ok" /\ SameLengths(storage, hsLog.before)

C9_Witness ==
    /\ hsLog.result = "ok" /\ hsLog.twice /\ hsLog.firstOk
    /\ OneLinePerId(hsLog.payload)
    /\ \E i \in 1..Len(hsLog.payload.odds) : StorageHas(storage, hsLog.payload.odds[i][1])

(***************************************************************************)
(* Properties of the resolver.                                             *)
(***************************************************************************)
\* C5 as claimed: at most one upstream fetch is in flight at any time.
C5_SingleFlight == Cardinality(InFlight) <= 1

\* C6 as claimed: a get that missed and overlapped another get's fetch, and
\* whose upstream dictionary was valid and bound its id, returns the name.
C6_ConcurrentMisses ==
    \A c \in Clients :
        (gmCalls[c].pc = "idle" /\ gmCalls[c].overlap /\ gmCalls[c].cleanMiss)
            => gmCalls[c].kind = "ok"

\* C7: a binding, once made, is never changed or removed.
C7_BindingImmutable ==
    [][\A g \in DOMAIN mappings : g \in DOMAIN mappings' /\ mappings'[g] = mappings[g]]_vars

C7_Witness ==
    /\ DOMAIN mappings # {}
    /\ \E c \in Clients : gmCalls[c].kind = "DuplicateBinding"

(***************************************************************************)
(* Properties of the projector.                                            *)
(***************************************************************************)
\* the mapped match a line stands for under the resolver's bindings
ExpectedScores(line) ==
    IF Len(line) = 8 /\ line[8] # ""
    THEN LET ps == SplitPipe(line[8]) IN
         [n \in {mappings[ps[i][1]] : i \in 1..Len(ps)} |->
             LET i == CHOOSE k \in 1..Len(ps) :
                          mappings[ps[k][1]] = n
                          /\ \A l \in (k + 1)..Len(ps) : mappings[ps[l][1]] # n
             IN [type |-> n, home |-> Number(ps[i][2][1]).val,
                 away |-> Number(ps[i][2][2]).val]]
    ELSE EmptyMap

ExpectedMatch(line) ==
    [id |-> line[1], status |-> mappings[line[7]], scores |-> ExpectedScores(line),
     startTime |-> ToISOString(Number(line[4]).val), sport |-> mappings[line[2]],
     competitors |-> [HOME |-> [type |-> "HOME", name |-> mappings[line[5]]],
                      AWAY |-> [type |-> "AWAY", name |-> mappings[line[6]]]],
     competition |-> mappings[line[3]]]

\* the non-empty lines of a body, and the last line of a match in it
Lines(p) == {i \in 1..Len(p.odds) : p.odds[i] # <<"">>}

LastLineOf(p, id) ==
    p.odds[CHOOSE i \in Lines(p) :
               p.odds[i][1] = id /\ \A j \in Lines(p) : j > i => p.odds[j][1] # id]

ShownStatus(line) == mappings[line[7]] \in {"PRE", "LIVE"}

LastShownLineOf(p, id) ==
    p.odds[CHOOSE i \in Lines(p) :
               /\ p.odds[i][1] = id /\ ShownStatus(p.odds[i])
               /\ \A j \in Lines(p) : (j > i /\ p.odds[j][1] = id) => ~ShownStatus(p.odds[j])]

ViewIds == {liveState[i].key : i \in 1..Len(liveState)}

\* C10 as claimed: after a successful notification the view holds exactly the
\* matches whose most recent line in the snapshot has status PRE or LIVE, each
\* mapped to the mapped match of that line.
C10_ViewOfMostRecentLine ==
    lmLog.result = "ok" =>
        /\ \A id \in UuidTokens :
               id \in ViewIds <=>
                   /\ \E i \in Lines(lmLog.payload) : lmLog.payload.odds[i][1] = id
                   /\ ShownStatus(LastLineOf(lmLog.payload, id))
        /\ \A id \in ViewIds :
               ObjectGet(liveState, id) = ExpectedMatch(LastLineOf(lmLog.payload, id))

\* C10: after a successful notification the view holds exactly the matches
\* that have a line with status PRE or LIVE in the snapshot, each mapped to
\* the mapped match of its most recent such line; nothing else is in the view.
C10_ViewContent ==
    lmLog.result = "ok" =>
        /\ \A id \in UuidTokens :
               id \in ViewIds <=>
                   \E i \in Lines(lmLog.payload) :
                       lmLog.payload.odds[i][1] = id /\ ShownStatus(lmLog.payload.odds[i])
        /\ \A id \in ViewIds :
               ObjectGet(liveState, id) = ExpectedMatch(LastShownLineOf(lmLog.payload, id))
        /\ \A i, j \in 1..Len(liveState) : liveState[i].key = liveState[j].key => i = j

C10_Witness ==
    /\ lmLog.result = "ok"
    /\ liveState # <<>>
    /\ \E i \in 1..Len(lmLog.before) : lmLog.before[i].key \notin ViewIds
    /\ \E i \in Lines(lmLog.payload) : lmLog.payload.odds[i][1] \notin ViewIds

\* C11: a notification that has failed (invalid JSON, a line that fails to
\* decode, a resolver error) has left the public view exactly as it was before
\* the notification; the failure is what the caller of onEndpointChange gets.
C11_FailureKeepsView == lmLog.result = "failed" => GetCurrentState = lmLog.before

C11_Witness ==
    /\ lmLog.result = "failed"
    /\ lmLog.payload.json
    /\ Len(OddsRecords(lmLog.payload)) > 1
    /\ GetCurrentState # <<>>

\* the ids of the snapshot's lines whose status is PRE or LIVE
ShownIds(p) == {p.odds[i][1] : i \in {j \in Lines(p) : ShownStatus(p.odds[j])}}

\* C12: at every suspension point of a notification in progress a reader of
\* the view gets the complete previous view; at any other time it gets the
\* previous view or the complete new one, never a part of the new one.
C12_AtomicSwap ==
    /\ lm.pc = "running" => GetCurrentState = lmLog.before
    /\ \/ GetCurrentState = lmLog.before
       \/ lmLog.result = "ok" /\ ViewIds = ShownIds(lmLog.payload)

C12_Witness ==
    /\ lm.pc = "running"
    /\ lm.newState # <<>>
    /\ lm.newState # GetCurrentState
    /\ GetCurrentState # <<>>

(***************************************************************************)
(* Properties of the poller.  A fetch is successful when the GET answers   *)
(* 2xx; plLog.prevBody is the body of the previous such fetch, and         *)
(* plLog.fails counts the failed cycles since the last successful cycle or *)
(* the last start that began polling.                                      *)
(***************************************************************************)
\* the calls a round makes when it goes through the whole list `listeners`
AllInvocations(listeners, body) ==
    [i \in 1..Len(listeners) |-> Invocation(listeners[i], body)]

IsPrefix(s, t) == Len(s) <= Len(t) /\ \A i \in 1..Len(s) : s[i] = t[i]

CycleEnded == plLog.ev.op = "cycleEnd"

\* C3: a cycle whose successful fetch returned the bytes of the previous
\* successful fetch invokes no listener: no round is in progress for such a
\* body, and the cycle ends successfully with no invocation made.
C3_UnchangedNotNotified ==
    /\ \A l \in DOMAIN loops : l.pc = "notifying" => l.changed
    /\ (CycleEnded /\ plLog.ev.fetched /\ ~plLog.ev.changed) =>
           plLog.ev.invoked = <<>> /\ plLog.ev.ok

C3_Witness ==
    /\ CycleEnded /\ plLog.ev.fetched /\ ~plLog.ev.changed
    /\ poller.changeListeners # <<>>

\* C4 as claimed: a cycle whose fetch succeeded, and during which the registry
\* was not modified, has notified every registered listener with (url, decoded
\* body) if the body differs from the previous successful fetch, and has
\* notified no listener otherwise.
C4_AllNotifiedIffChanged ==
    (CycleEnded /\ plLog.ev.fetched /\ ~plLog.ev.touched) =>
        IF plLog.ev.changed
        THEN plLog.ev.invoked = AllInvocations(poller.changeListeners, plLog.ev.body)
        ELSE plLog.ev.invoked = <<>>

\* C4: listeners are notified when, and only when, a successful fetch returns
\* a body that differs from the previous successful fetch (the first one
\* always differs); each call carries (url, decoded body); with the registry
\* not modified during the round, the calls go through the registry in
\* registration order, through all of it when no listener fails and up to the
\* failing listener otherwise.
C4_Notification ==
    /\ \A l \in DOMAIN loops : l.pc = "notifying" => l.changed
    /\ (CycleEnded /\ plLog.ev.fetched) =>
           LET ev == plLog.ev
               all == AllInvocations(poller.changeListeners, ev.body)
           IN /\ ~ev.changed => ev.invoked = <<>>
              /\ ev.changed =>
                     /\ \A i \in 1..Len(ev.invoked) :
                            ev.invoked[i].url = Url /\ ev.invoked[i].data = Decode(ev.body)
                     /\ (~ev.touched /\ ev.ok) => ev.invoked = all
                     /\ (~ev.touched /\ ~ev.ok) => ev.invoked # <<>> /\ IsPrefix(ev.invoked, all)

C4_Witness ==
    /\ CycleEnded /\ plLog.ev.fetched /\ plLog.ev.changed /\ plLog.ev.ok
    /\ ~plLog.ev.touched
    /\ Len(plLog.ev.invoked) = 2
    /\ plLog.ev.invoked[1].listener # plLog.ev.invoked[2].listener

\* C8 as claimed: after k >= 1 consecutive failed cycles following a success
\* or a start, the backoff is min(1000 * 2^k, 10000) and the state is
\* BACKING_OFF.
C8_BackoffValue ==
    (CycleEnded /\ ~plLog.ev.ok) =>
        /\ plLog.fails >= 1
        /\ poller.currentBackoffDelay = Min(1000 * 2^plLog.fails, 10000)
        /\ poller.currentState = "BACKING_OFF"

\* the step in which a listener call of a round fails
ListenerFailedStep ==
    plLog'.ev.op = "cycleEnd" /\ plLog'.ev.fetched /\ ~plLog'.ev.ok

\* what the poller does when a listener call fails: the backoff doubles (up to
\* the maximum), the state is BACKING_OFF, the time of the last success stays,
\* the activation sleeps unless polling was stopped, and the listeners after
\* the failing one have not been called
ListenerFailureHandled ==
    ListenerFailedStep =>
        /\ poller'.currentBackoffDelay = Min(2 * poller.currentBackoffDelay, 10000)
        /\ poller'.currentState = "BACKING_OFF"
        /\ poller'.lastSuccessfulRequest = poller.lastSuccessfulRequest
        /\ poller.isPolling =>
               CopiesIn(RestingLoop("sleeping"), loops')
                   = CopiesIn(RestingLoop("sleeping"), loops) + 1
        /\ ~plLog'.ev.touched =>
               /\ plLog'.ev.invoked # <<>>
               /\ IsPrefix(plLog'.ev.invoked,
                           AllInvocations(poller.changeListeners, plLog'.ev.body))

\* the step in which the first successful fetch after a listener failure
\* returns the body whose round failed
RefetchOfFailedBody ==
    /\ plLog.failedBody # NoBody
    /\ plLog'.failedBody = NoBody
    /\ plLog'.prevBody = plLog.failedBody

\* C13 as claimed: a listener failure during the round of body B makes the
\* cycle a failed one (backoff doubled and slept, time of last success kept,
\* later listeners not called), and the next successful fetch, if it returns B
\* again, calls no listener.
C13_ListenerFailure ==
    [][/\ ListenerFailureHandled
       /\ RefetchOfFailedBody =>
              plLog'.ev.op = "cycleEnd" /\ plLog'.ev.invoked = <<>>]_vars

\* the rounds in progress: each has exactly one listener call pending, the
\* last of its invoked
Rounds == {l \in DOMAIN loops : l.pc = "notifying"}

\* a round of the next state that has just made a listener call
CalledIn(r) ==
    /\ r \in DOMAIN loops' /\ r.pc = "notifying"
    /\ r \notin DOMAIN loops
    /\ r \notin {Touched(l) : l \in DOMAIN loops}

\* C14: in a round the listeners are called one at a time in registration
\* order: the calls made so far are the first listeners of the registry, in
\* its order, as long as the registry is not modified during the round; and a
\* call other than the first of a round is made only in the step in which the
\* round's pending call returns, to the listener at the next position.
C14_ListenerOrder ==
    /\ [](\A l \in Rounds :
              /\ Len(l.invoked) = l.idx
              /\ ~l.touched => IsPrefix(l.invoked,
                                        AllInvocations(poller.changeListeners, l.body)))
    /\ [][\A r \in DOMAIN loops' :
              (CalledIn(r) /\ Len(r.invoked) > 1) =>
                  \E l \in Rounds :
                      /\ r.idx = l.idx + 1
                      /\ r.body = l.body
                      /\ r.invoked = Append(l.invoked,
                             Invocation(poller.changeListeners[r.idx], l.body))]_vars

C14_Witness ==
    \E l \in Rounds :
        /\ ~l.touched
        /\ Len(l.invoked) = 2
        /\ l.invoked[1].listener = "L1" /\ l.invoked[2].listener = "L2"

\* the GETs pending: every activation waiting for its GET is in the same state
PendingFetches(ls) == CopiesIn(RestingLoop("fetching"), ls)

\* the step issues a GET
FetchIssued == PendingFetches(loops') > PendingFetches(loops)

\* C15 as claimed: whatever the start and stop calls and the fetch outcomes,
\* no fetch is issued while a notification round is in progress.
C15_NoOverlappingRounds == [][FetchIssued => Rounds = {}]_vars

RECURSIVE SumInvoked(_, _)
SumInvoked(ls, S) ==
    IF S = {} THEN 0
    ELSE LET l == CHOOSE x \in S : TRUE
         IN ls[l] * Len(l.invoked) + SumInvoked(ls, S \ {l})

\* the listener calls made by the rounds in progress
CallsMade(ls) == SumInvoked(ls, DOMAIN ls)

\* the step calls a listener (a step changes one activation only)
ListenerCalled == CallsMade(loops') > CallsMade(loops)

\* C16 as claimed: once stop has returned, and until the next start, no fetch
\* is issued and no listener is called.
C16_QuietAfterStop ==
    [][(~poller.isPolling /\ ~poller'.isPolling) => (~FetchIssued /\ ~ListenerCalled)]_vars

\* C17 as claimed: from stop until the next start the state is INITIALIZING,
\* whatever a fetch or sleep pending at the time of stop does afterwards.
C17_InitializingWhileStopped == ~poller.isPolling => poller.currentState = "INITIALIZING"

\* the step is a start that begins polling
PollingStarted == ~poller.isPolling /\ poller'.isPolling

\* C18 as claimed: a start, also one that follows a stop, leaves the poller
\* with the initial backoff and with no checksum, so that the next successful
\* fetch counts as changed whatever its body.
C18_FreshRestart ==
    [][PollingStarted =>
           /\ poller'.currentBackoffDelay = 1000
           /\ poller'.lastChecksum = ""]_vars

\* the values currentState takes in a step, from the one it had before
StatePath ==
    IF plLog'.ev.op = "cycleEnd" /\ ~plLog'.ev.ok
    THEN <<poller.currentState>> \o FailurePath
    ELSE <<poller.currentState, poller'.currentState>>

\* the edges of the state machine as claimed; the edge to POLLING from
\* INITIALIZING belongs to start, the edges to INITIALIZING belong to stop
ClaimedEdge(from, to) ==
    \/ from = "INITIALIZING" /\ to = "POLLING" /\ PollingStarted
    \/ from = "POLLING" /\ to = "ERROR"
    \/ from = "ERROR" /\ to = "POLLING"
    \/ from = "ERROR" /\ to = "BACKING_OFF"
    \/ from = "BACKING_OFF" /\ to = "POLLING"
    \/ to = "INITIALIZING" /\ ~poller'.isPolling

\* C19 as claimed: the state changes only along the edges INITIALIZING to
\* POLLING on start, POLLING to ERROR, ERROR to POLLING, ERROR to BACKING_OFF,
\* BACKING_OFF to POLLING, and any state to INITIALIZING on stop.
C19_StateMachine ==
    [][\A i \in 1..(Len(StatePath) - 1) :
           StatePath[i] # StatePath[i + 1] => ClaimedEdge(StatePath[i], StatePath[i + 1])]_vars

\* C20: a cycle that has ended successfully (the fetch succeeded and every
\* listener called returned), after any number of failed cycles, leaves the
\* backoff at 1000, the state POLLING and the time of the last success at the
\* time of the cycle.
C20_SuccessReset ==
    (CycleEnded /\ plLog.ev.ok) =>
        /\ poller.currentBackoffDelay = 1000
        /\ poller.currentState = "POLLING"
        /\ poller.lastSuccessfulRequest = now

C20_Witness ==
    /\ CycleEnded /\ plLog.ev.ok
    /\ plLog.ev.failsBefore >= 2
    /\ plLog.ev.invoked # <<>>

\* the listeners a round in progress has yet to invoke, were the registry
\* `listeners` from here on: the for...of reads the array at its next index
PendingListeners(r, listeners) ==
    SubSeq(listeners, NextListenerIndex(r.idx), Len(listeners))

\* C21 as claimed: a listener added or removed while a round is in progress
\* leaves the listeners that round has yet to invoke as they were; and
\* removing a listener that is not registered leaves the registry as it is.
C21_RegistryTiming ==
    /\ [][\A r \in Rounds :
              PendingListeners(r, poller'.changeListeners)
                  = PendingListeners(r, poller.changeListeners)]_vars
    /\ [](\A x \in ListenerIds :
              ~InSeq(x, poller.changeListeners) =>
                  WithoutListener(poller.changeListeners, x) = poller.changeListeners)

\* a step in which client d calls get(g)
GetCalled(d, g) ==
    /\ gmCalls[d].pc = "idle"
    /\ gmCalls'[d] # gmCalls[d]
    /\ gmCalls'[d].guid = g

\* C22: a get that has succeeded returned the name its id is bound to; no
\* binding is changed or removed afterwards; and a get for a bound id returns
\* the bound name at once and issues no upstream fetch, whatever the upstream
\* would answer.
C22_CacheHit ==
    /\ [](\A c \in Clients :
              (gmCalls[c].pc = "idle" /\ gmCalls[c].kind = "ok") =>
                  /\ gmCalls[c].guid \in DOMAIN mappings
                  /\ mappings[gmCalls[c].guid] = gmCalls[c].val)
    /\ [][\A g \in DOMAIN mappings : g \in DOMAIN mappings' /\ mappings'[g] = mappings[g]]_vars
    /\ [][\A d \in Clients : \A g \in DOMAIN mappings :
              GetCalled(d, g) =>
                  /\ gmCalls'[d].pc = "idle"
                  /\ gmCalls'[d].kind = "ok"
                  /\ gmCalls'[d].val = mappings[g]
                  /\ gmCalls'[d].fetches = 0
                  /\ InFlight' = InFlight
                  /\ mappings' = mappings]_vars

\* a get has returned a name from the cache while a second caller's fetch is
\* in flight
C22_Witness ==
    \E c, d \in Clients :
        /\ gmCalls[c].pc = "idle" /\ gmCalls[c].kind = "ok" /\ gmCalls[c].fetches = 0
        /\ gmCalls[c].val = "LIVE"
        /\ gmCalls[d].pc = "fetching"

\* a step in which the upstream answers client c's fetch and c's get ends
GetEnded(c) == gmCalls[c].pc = "fetching" /\ gmCalls'[c].pc = "idle"

\* the errors of a fetch that merged nothing
FetchErrors ==
    {"FetchFailed", "InvalidResponse", "InvalidEntry", "InvalidId", "NoEntries",
     "DuplicateBinding"}

\* C23 as claimed: a get that missed and has made its fetch, and whose id is
\* unbound, has failed with NotFound.
C23_MissEndsNotFound ==
    \A c \in Clients :
        (gmCalls[c].pc = "idle" /\ gmCalls[c].fetches = 1
            /\ gmCalls[c].guid \notin DOMAIN mappings) => gmCalls[c].kind = "NotFound"

\* C23: a get for a valid unbound id issues one upstream fetch and changes
\* no binding; when the fetch has merged its dictionary the id is looked up
\* again, and the get returns the bound name or fails with NotFound when the
\* id is still unbound; when the fetch has failed nothing is merged and the
\* get fails with the error of the fetch.
C23_Miss ==
    /\ [][\A d \in Clients : \A g \in RequestedGuids :
              (GetCalled(d, g) /\ IsUuid(g) /\ g \notin DOMAIN mappings) =>
                  /\ gmCalls'[d].pc = "fetching"
                  /\ gmCalls'[d].fetches = 1
                  /\ InFlight' = InFlight \cup {d}
                  /\ mappings' = mappings]_vars
    /\ [][\A c \in Clients :
              GetEnded(c) =>
                  LET g == gmCalls[c].guid
                      end == gmCalls'[c]
                  IN /\ end.guid = g /\ end.fetches = 1
                     /\ IF mappings' # mappings
                        THEN IF g \in DOMAIN mappings'
                             THEN end.kind = "ok" /\ end.val = mappings'[g]
                             ELSE end.kind = "NotFound"
                        ELSE end.kind \in FetchErrors]_vars

\* a get that missed while the resolver held a binding has ended with NotFound
\* after its fetch merged a dictionary
C23_Witness ==
    \E c \in Clients :
        /\ gmCalls[c].pc = "idle" /\ gmCalls[c].kind = "NotFound" /\ gmCalls[c].fetches = 1
        /\ gmCalls[c].startDom # {}
        /\ gmCalls[c].guid \notin DOMAIN mappings

\* the pairs of a payload whose every pair is well formed
PayloadEntries(r) ==
    IF r.status = "ok" /\ r.hasMappings /\ r.mappings # << <<"">> >>
        /\ ParseEntries(r.mappings).ok
    THEN ParseEntries(r.mappings).entries
    ELSE <<>>

\* C24: when the upstream answers a get's fetch with a payload of well-formed
\* pairs in which an id is already bound in the resolver, or is on two pairs,
\* the get fails with DuplicateBinding and no binding is made, whatever the
\* names are and whatever id the get was for.
C24_DuplicateDetection ==
    [][\A c \in Clients :
           GetEnded(c) =>
               LET entries == PayloadEntries(gmCalls'[c].resp)
               IN (\/ HasRepeated(entries)
                   \/ \E i \in 1..Len(entries) : entries[i][1] \in DOMAIN mappings) =>
                      /\ gmCalls'[c].kind = "DuplicateBinding"
                      /\ mappings' = mappings]_vars

\* a get for an id the payload does not name has failed with DuplicateBinding
\* on a payload that binds a bound id to the name it has already
C24_Witness ==
    \E c \in Clients :
        LET entries == PayloadEntries(gmCalls[c].resp)
        IN /\ gmCalls[c].pc = "idle" /\ gmCalls[c].kind = "DuplicateBinding"
           /\ ~HasRepeated(entries)
           /\ \A i \in 1..Len(entries) :
                  /\ entries[i][1] # gmCalls[c].guid
                  /\ entries[i][1] \in DOMAIN mappings
                  /\ mappings[entries[i][1]] = entries[i][2]

(***************************************************************************)
(* Properties of the record decoder.                                       *)
(***************************************************************************)
\* the string is the decimal form of a finite integer
IsFiniteInteger(s) == s # "" /\ ~Number(s).nan /\ Number(s).frac = 0

\* every '|'-segment of the field is uuid@integer:integer
IsScoreField(g) ==
    \A i \in 1..Len(SplitPipe(g)) :
        LET p == SplitPipe(g)[i]
        IN /\ Len(p) = 2 /\ IsUuid(p[1])
           /\ Len(p[2]) = 2 /\ IsFiniteInteger(p[2][1]) /\ IsFiniteInteger(p[2][2])

\* the lines the validation rules reject
BreaksRule(line) ==
    \/ Len(line) \notin {7, 8}
    \/ \E index \in GuidFields : ~IsUuid(line[index])
    \/ ~IsFiniteInteger(line[4])
    \/ Len(line) = 8 /\ line[8] # "" /\ ~IsScoreField(line[8])

\* C25 as claimed: parse fails with InvalidRecord exactly on the lines that
\* break a validation rule, and fails with no other kind of error.
C25_Validation ==
    \A c \in Callers :
        dec[c].kind # "none" =>
            /\ (dec[c].kind = "InvalidRecord") <=> BreaksRule(dec[c].line)
            /\ dec[c].kind # "TypeError"

\* c's call has ended and parseRecord accepted its line
Accepted(c) ==
    dec[c].pc = "idle" /\ dec[c].kind \notin {"none", "InvalidRecord", "TypeError"}

\* C26 as claimed: a line that parseRecord accepts, a start time of 0
\* included, and whose ids are all bound in the resolver, is rendered
\* successfully as an object whose only key is the line's match id, with no
\* scores when field 7 is missing or empty.
C26_RoundTrip ==
    \A c \in Callers :
        (Accepted(c) /\ dec[c].bound) =>
            /\ dec[c].kind = "ok"
            /\ dec[c].obj.key = dec[c].line[1]
            /\ dec[c].obj.match.id = dec[c].line[1]
            /\ (Len(dec[c].line) = 7 \/ dec[c].line[8] = "") =>
                   dec[c].obj.match.scores = EmptyMap

\* the ids on a line that a render resolves
IdsOf(line) ==
    {line[i] : i \in {2, 3, 5, 6, 7}}
        \cup (IF Len(line) = 8 /\ line[8] # ""
              THEN {SplitPipe(line[8])[i][1] : i \in 1..Len(SplitPipe(line[8]))}
              ELSE {})

\* C27 as claimed: the object a caller obtains for its line is the mapped
\* match of that line under the resolver's bindings, whatever the other
\* caller of the decoder does meanwhile.
C27_Stateless ==
    \A c \in Callers :
        (dec[c].pc = "idle" /\ dec[c].kind = "ok") =>
            /\ IdsOf(dec[c].line) \subseteq DOMAIN mappings
            /\ dec[c].obj = [key |-> dec[c].line[1], match |-> ExpectedMatch(dec[c].line)]

(***************************************************************************)
(* Further properties of the history store.                                *)
(***************************************************************************)
\* the raw lines of a match's history, oldest first
RawHistory(st, matchId) ==
    [k \in 1..Len(GetMatchHistory(st, matchId)) |-> GetMatchHistory(st, matchId)[k].rawData]

\* the raw lines of a match's history once the first n records are applied to
\* the store st by the dedup rule
RawAfter(st, records, n, matchId) ==
    LET F[j \in 0..n] ==
            IF j = 0 THEN RawHistory(st, matchId)
            ELSE IF records[j][1] = matchId
                    /\ (F[j - 1] = <<>> \/ F[j - 1][Len(F[j - 1])] # records[j])
            THEN Append(F[j - 1], records[j])
            ELSE F[j - 1]
    IN F[n]

\* the first record of the snapshot whose match id is not a UUID
FirstBadId(records) ==
    CHOOSE i \in 1..Len(records) :
        ~IsUuid(records[i][1]) /\ \A j \in 1..(i - 1) : IsUuid(records[j][1])

\* the notification has just read a record whose match id is not a UUID
BadIdRead == hsLog.ev.op = "line" /\ ~IsUuid(hsLog.ev.id)

\* C28: when the notification reaches a line whose first field is not a UUID
\* it fails with InvalidMatchId and ends; every history then holds what the
\* lines before that one make of it by the dedup rule, and nothing else: no
\* later line is applied and no generated entry is added.
C28_FailFast ==
    BadIdRead =>
        LET records == StoreRecords(hsLog.payload)
            i == FirstBadId(records)
        IN /\ hsLog.result = "failed" /\ hsLog.err = "InvalidMatchId"
           /\ hs = IdleStore
           /\ \A matchId \in {storage[k].key : k \in 1..Len(storage)}
                                \cup {hsLog.before[k].key : k \in 1..Len(hsLog.before)}
                                \cup {records[k][1] : k \in 1..Len(records)} :
                  RawHistory(storage, matchId) = RawAfter(hsLog.before, records, i - 1, matchId)

\* the failing line comes after a line that was applied and before another
\* line, and a match that was LIVE is missing from the lines before it
C28_Witness ==
    /\ BadIdRead
    /\ LET records == StoreRecords(hsLog.payload)
           i == FirstBadId(records)
       IN /\ 1 < i /\ i < Len(records)
          /\ storage # hsLog.before
          /\ \E k \in 1..Len(hsLog.before) :
                 LET old == hsLog.before[k].value
                 IN /\ old[Len(old)].matchStatus = "LIVE"
                    /\ \A j \in 1..(i - 1) : records[j][1] # hsLog.before[k].key

\* the errors of a get that could not resolve an id
ResolverErrors == FetchErrors \cup {"NotFound"}

\* a step in which the notification processes the record it has reached
LineProcessed == hs.pc = "running" /\ hs.i <= Len(hs.records) /\ hs' # hs

\* C29 as claimed: processing a well-formed line L whose ids the resolver can
\* resolve, and whose match has no history or a most recent entry with a raw
\* line other than L, appends exactly one entry at the end of that match's
\* history, with raw line L and the status L's status id is bound to, and
\* changes the history of no other match.
C29_AppendOnChange ==
    [][LineProcessed =>
          LET L == hs.records[hs.i]
              old == GetMatchHistory(storage, L[1])
              new == GetMatchHistory(storage', L[1])
          IN (/\ ~BreaksRule(L)
              /\ old = <<>> \/ old[Len(old)].rawData # L
              /\ hsLog'.err \notin ResolverErrors) =>
                 /\ hsLog'.result = "running"
                 /\ Len(new) = Len(old) + 1
                 /\ SubSeq(new, 1, Len(old)) = old
                 /\ new[Len(new)].rawData = L
                 /\ new[Len(new)].matchStatus = mappings'[L[7]]
                 /\ \A k \in 1..Len(storage) :
                        storage[k].key # L[1] =>
                            GetMatchHistory(storage', storage[k].key) = storage[k].value
                 /\ \A k \in 1..Len(storage') :
                        storage'[k].key # L[1] => StorageHas(storage, storage'[k].key)]_vars

\* the status of a match's most recent entry
CurrentStatus(st, matchId) ==
    LET h == GetMatchHistory(st, matchId) IN IF h = <<>> THEN Null ELSE h[Len(h)].matchStatus

\* C30: a notification appends nothing for a match that is not in its
\* snapshot and whose current status is not LIVE; and whenever an entry with
\* the raw line "(Generated)" is appended, it is appended for a match whose
\* current status was LIVE and which is not in the snapshot being processed.
C30_OnlyLiveSynthesized ==
    /\ [](hsLog.result \in {"running", "ok", "failed"} =>
              \A k \in 1..Len(hsLog.before) :
                  LET matchId == hsLog.before[k].key
                  IN (CurrentStatus(hsLog.before, matchId) # "LIVE"
                         /\ ~OccursIn(hsLog.payload, matchId)) =>
                             GetMatchHistory(storage, matchId) = hsLog.before[k].value)
    /\ [][\A k \in 1..Len(storage') :
              LET matchId == storage'[k].key
                  old == GetMatchHistory(storage, matchId)
                  new == storage'[k].value
              IN \A n \in (Len(old) + 1)..Len(new) :
                     new[n].rawData = Generated =>
                         /\ CurrentStatus(storage, matchId) = "LIVE"
                         /\ ~OccursIn(hsLog.payload, matchId)
                         /\ n = Len(old) + 1
                         /\ new[n].matchStatus = "REMOVED"]_vars

\* a notification has ended successfully whose snapshot lacks a match that was
\* PRE, and whose sweep or an earlier one has generated an entry
C30_Witness ==
    /\ hsLog.result = "ok"
    /\ \E k \in 1..Len(hsLog.before) :
           /\ CurrentStatus(hsLog.before, hsLog.before[k].key) = "PRE"
           /\ ~OccursIn(hsLog.payload, hsLog.before[k].key)
    /\ \E k \in 1..Len(storage) :
           \E n \in 1..Len(storage[k].value) : storage[k].value[n].rawData = Generated

\* C31: in every step other than a clear, the history each match had before
\* the step is a prefix of the history it has after it.
C31_AppendOnly ==
    [][hsLog'.ev.op # "clear" =>
          \A k \in 1..Len(storage) :
              IsPrefix(storage[k].value, GetMatchHistory(storage', storage[k].key))]_vars

\* a match has a history of three entries, a generated one among them
C31_Witness ==
    \E k \in 1..Len(storage) :
        /\ Len(storage[k].value) >= 3
        /\ \E n \in 1..Len(storage[k].value) : storage[k].value[n].rawData = Generated


\* C32: every id of getAllMatchIds has a non-empty history and a current
\* entry, no id is listed twice, and an id enters the list only in the step
\* that processes a record of that id.
C32_KnownIdsHaveHistory ==
    /\ [](LET ids == GetAllMatchIds(storage) IN
          /\ \A i \in 1..Len(ids) :
                /\ Len(GetMatchHistory(storage, ids[i])) > 0
                /\ GetCurrentMatchEntry(storage, ids[i]).found
          /\ \A i, j \in 1..Len(ids) : ids[i] = ids[j] => i = j)
    /\ [][\A id \in UuidTokens \cup {"zz", ""} :
              (StorageHas(storage', id) /\ ~StorageHas(storage, id))
                  => /\ hs.pc = "running" /\ hs.i <= Len(hs.records)
                     /\ hs.records[hs.i][1] = id]_vars

\* two ids are listed, one of them with a history of two entries, while a
\* third id of the feed has received nothing
C32_Witness ==
    LET ids == GetAllMatchIds(storage) IN
    /\ Len(ids) = 2
    /\ \E i \in 1..2 : Len(GetMatchHistory(storage, ids[i])) >= 2
    /\ hsLog.n >= 2


\* C33: a clear step is enabled in every resting state of the store, and the
\* state after it has no ids, an empty history and no current entry for every
\* id.
C33_ClearEmpties ==
    /\ [](hs.pc = "idle" => ENABLED StoreClear)
    /\ [][hsLog'.ev.op = "clear" =>
             /\ GetAllMatchIds(storage') = <<>>
             /\ \A id \in UuidTokens \cup {"zz", ""} :
                   /\ GetMatchHistory(storage', id) = <<>>
                   /\ ~GetCurrentMatchEntry(storage', id).found]_vars

\* the store was cleared after it held the histories of two matches
C33_Witness ==
    /\ hsLog.ev.op = "clear"
    /\ storage = <<>>
    /\ Len(hsLog.before) = 2


(***************************************************************************)
(* Properties of the object getCurrentState() returns.                     *)
(***************************************************************************)
\* a step of the caller on the object it holds
CallerWrote == view.held /\ view'.held /\ view' # view /\ lm' = lm /\ lmLog' = lmLog

\* C34: no write of a caller to the object it got from getCurrentState()
\* (adding, replacing or deleting a key, or writing through one) changes what
\* getCurrentState() returns afterwards.
C34_DefensiveCopy == [][CallerWrote => GetCurrentState' = GetCurrentState]_vars

\* the part of C34 about keys: adding, replacing or deleting a key of the
\* returned object leaves what getCurrentState() returns as it was
C34_KeysIsolated ==
    [][(CallerWrote /\ \A i \in 1..Len(view.props) :
                           \A j \in 1..Len(view'.props) :
                               view.props[i].key = view'.props[j].key
                                   => \/ view.props[i].value = view'.props[j].value
                                      \/ ~view'.props[j].shared)
          => GetCurrentState' = GetCurrentState]_vars


(***************************************************************************)
(* Properties of the history store across notifications.                   *)
(***************************************************************************)
EachIdOnce(p) ==
    LET records == StoreRecords(p) IN
    \A i, j \in 1..Len(records) : records[i][1] = records[j][1] => i = j

NoAdjacentDuplicates(st) ==
    \A k \in 1..Len(st) :
        \A n \in 1..(Len(st[k].value) - 1) :
            st[k].value[n].rawData # st[k].value[n + 1].rawData

\* C35: once a notification has failed after some of its lines were appended,
\* the successful processing of a later snapshot that names each id once
\* leaves every id of the snapshot with its line of the snapshot as current
\* raw line, and no history with two adjacent entries of the same raw line.
C35_Convergence ==
    (hsLog.result = "ok" /\ hsLog.partial /\ EachIdOnce(hsLog.payload))
        => /\ \A i \in 1..Len(StoreRecords(hsLog.payload)) :
                 LET record == StoreRecords(hsLog.payload)[i]
                     current == GetCurrentMatchEntry(storage, record[1])
                 IN current.found /\ current.entry.rawData = record
           /\ NoAdjacentDuplicates(storage)

\* a snapshot of two matches has been processed after a partly applied one,
\* and the line of the partly applied snapshot is in a history under the
\* line of the later one
C35_Witness ==
    /\ hsLog.result = "ok" /\ hsLog.partial /\ EachIdOnce(hsLog.payload)
    /\ Len(StoreRecords(hsLog.payload)) = 2
    /\ storage # hsLog.before
    /\ \E k \in 1..Len(storage) : Len(storage[k].value) >= 2


(***************************************************************************)
(* Properties of the server: poller, projector and history store.          *)
(***************************************************************************)
ClearStep == hsLog'.ev.op = "clear" /\ hsLog' # hsLog

\* the GET of this step answered with the bytes `data`
Fetched(data) ==
    /\ \E l \in DOMAIN loops : l.pc = "fetching"
    /\ loops' # loops
    /\ \/ plLog'.ev.op = "cycleEnd" /\ plLog'.ev.fetched /\ plLog'.ev.body = data
       \/ \E l \in DOMAIN loops' : l.pc = "notifying" /\ l.idx = 1 /\ l.body = data

\* C36: clearHistory leaves the poller as it is, the store is empty after
\* it, and a cycle after it that fetches the bytes of the lastChecksum calls
\* no listener: the store stays empty.
C36_ClearKeepsChecksum ==
    /\ [](hsLog.ev.op = "clear" => storage = <<>>)
    /\ [][ClearStep => poller' = poller]_vars
    /\ [][\A data \in FeedBodies :
             (hsLog.ev.op = "clear" /\ Fetched(data)
                  /\ CalculateChecksum(data) = poller.lastChecksum)
                 => /\ storage' = <<>> /\ hs' = hs /\ hsLog' = hsLog
                    /\ lm' = lm /\ lmLog' = lmLog]_vars

\* the store was cleared when it held histories, and the cycle after it has
\* fetched the bytes of the lastChecksum and called no listener
C36_Witness ==
    /\ hsLog.ev.op = "clear" /\ Len(hsLog.before) > 0 /\ storage = <<>>
    /\ plLog.ev.op = "cycleEnd" /\ plLog.ev.ok /\ plLog.ev.fetched /\ plLog.ev.invoked = <<>>
    /\ CalculateChecksum(plLog.ev.body) = poller.lastChecksum


\* C37 as claimed: whatever the start and stop calls, at most one activation
\* of poll() is in its loop (fetching, notifying or sleeping) at a time.
C37_SingleLoop == BagCardinality(loops) <= 1


(***************************************************************************)
(* Properties of the resolver's merge.                                     *)
(***************************************************************************)
\* C38: the step in which a get ends with the error of its fetch (transport
\* error, invalid response, invalid entry, invalid id, no entries, duplicate
\* binding) leaves the mappings as they were: no pair of the rejected answer
\* is bound.
C38_AllOrNothing ==
    [][\A c \in Clients :
           (GetEnded(c) /\ gmCalls'[c].kind \in FetchErrors) => mappings' = mappings]_vars

\* a get has failed with a duplicate binding on a dictionary that also holds
\* an id not bound before, and that id is still unbound
C38_Witness ==
    \E c \in Clients :
        /\ gmCalls[c].pc = "idle" /\ gmCalls[c].kind = "DuplicateBinding"
        /\ DOMAIN mappings # {}
        /\ DictIds(gmCalls[c].resp) \ DOMAIN mappings # {}


\* C39: no history holds two consecutive entries with the same raw line; a
\* generated entry is never the first entry of a history, directly follows an
\* entry of status LIVE, and is never directly followed by a generated entry.
C39_NoAdjacentDuplicates ==
    /\ NoAdjacentDuplicates(storage)
    /\ \A k \in 1..Len(storage) :
          \A n \in 1..Len(storage[k].value) :
              storage[k].value[n].rawData = Generated
                  => /\ n > 1
                     /\ storage[k].value[n - 1].matchStatus = "LIVE"
                     /\ n < Len(storage[k].value)
                            => storage[k].value[n + 1].rawData # Generated

\* a history holds a generated entry between two entries of lines
C39_Witness ==
    \E k \in 1..Len(storage) :
        \E n \in 2..(Len(storage[k].value) - 1) :
            /\ storage[k].value[n].rawData = Generated
            /\ storage[k].value[n + 1].matchStatus = "LIVE"


\* the ids whose current history entry has status LIVE
LiveInStore(st) ==
    {st[k].key : k \in {n \in 1..Len(st) : st[n].value[Len(st[n].value)].matchStatus = "LIVE"}}

\* the ids whose match in the view has status LIVE
LiveInView(currentState) ==
    {currentState[i].key :
        i \in {n \in 1..Len(currentState) : currentState[n].value.status = "LIVE"}}

\* the step ends a round in which the projector and the store have both
\* returned
RoundEnded ==
    /\ loops' # loops
    /\ plLog'.ev.op = "cycleEnd" /\ plLog'.ev.ok /\ Len(plLog'.ev.invoked) = 2

\* C40 as claimed: at the end of every round in which the projector and the
\* store have processed the snapshot, the ids that are LIVE in the store are
\* the ids that are LIVE in the view.
C40_LiveAgreement == [][RoundEnded => LiveInStore(storage') = LiveInView(liveState')]_vars

\* C40: at the end of every round in which the projector and the store have
\* processed a snapshot that names each id on one line only, the ids that are
\* LIVE in the store are the ids that are LIVE in the view.
C40_LiveAgreementOnePerId ==
    [][(RoundEnded /\ EachIdOnce(FeedSnapshot(plLog'.ev.body)))
          => LiveInStore(storage') = LiveInView(liveState')]_vars

\* a round on a snapshot with one line per id has ended with a match LIVE in
\* both the store and the view, and with a match of an earlier snapshot
\* marked as removed in the store
C40_Witness ==
    /\ plLog.ev.op = "cycleEnd" /\ plLog.ev.ok /\ Len(plLog.ev.invoked) = 2
    /\ EachIdOnce(FeedSnapshot(plLog.ev.body))
    /\ lm.pc = "idle" /\ hs.pc = "idle" /\ hsLog.result = "ok"
    /\ LiveInStore(storage) # {}
    /\ LiveInStore(storage) = LiveInView(liveState)
    /\ \E k \in 1..Len(storage) : Len(storage[k].value) >= 2

============================================================================
